---- MODULE Spec2Model ----
(***************************************************************************)
(* A model of the GDPR DSAR workflow of Umang-Bansal/gdpr-guardian:        *)
(* the step functions of GDPRPlan (src/agent/plan.py), the guardrails      *)
(* (src/agent/hooks.py), the PII tool (src/tools/pii_tool.py) and the HTTP *)
(* driver (src/server/app.py: new_dsar, approve, toggle_legal_hold).       *)
(*                                                                         *)
(* Conventions.  A Python str is a sequence of one-character strings.  A   *)
(* Python dict with optional keys is a function whose DOMAIN is the set of *)
(* keys present.  A float of the identity check is an integer number of    *)
(* hundredths (0.85 is 85).  None is the string "None" where a value of    *)
(* string type may be None.                                                *)
(***************************************************************************)
EXTENDS Integers, Sequences, FiniteSets, TLC

VARIABLES
    data,             \* the files under data/ read by the handlers
    stored,           \* rid \in RUNS
    subject_email,    \* PlanRunState.subject_email
    request_types,    \* PlanRunState.request_types
    artifacts,        \* PlanRunState.artifacts
    pii_findings,     \* PlanRunState.pii_findings
    redaction_proposals, \* PlanRunState.redaction_proposals
    approvals,        \* PlanRunState.approvals
    policy,           \* PlanRunState.policy
    identity,         \* PlanRunState.identity
    legal,            \* PlanRunState.legal
    audit_log,        \* PlanRunState.audit_log
    disclosures,      \* PlanRunState.disclosures
    delivery,         \* PlanRunState.delivery
    erasure,          \* PlanRunState.erasure
    clarifications,   \* GDPRPlan.clarifications of the plan object last used
    package,          \* what write_disclosure_zip last wrote to out/<rid>.zip
    last,             \* the operation invoked last
    ret,              \* what that operation returned
    calls             \* number of external calls made after new_dsar

vars == <<data, stored, subject_email, request_types, artifacts, pii_findings,
          redaction_proposals, approvals, policy, identity, legal, audit_log,
          disclosures, delivery, erasure, clarifications, package, last, ret,
          calls>>

-----------------------------------------------------------------------------
(* Dictionaries *)

EmptyDict == [k \in {} |-> TRUE]

Has(d, k) == k \in DOMAIN d

\* d.get(k, default)
Get(d, k, default) == IF k \in DOMAIN d THEN d[k] ELSE default

\* {**d, k: v}
Put(d, k, v) == [x \in (DOMAIN d) \cup {k} |-> IF x = k THEN v ELSE d[x]]

-----------------------------------------------------------------------------
(* Text *)

UpperChars == {"A","B","C","D","E","F","G","H","I","J","K","L","M","N","O","P","Q","R","S","T","U","V","W","X","Y","Z"}
LowerChars == {"a","b","c","d","e","f","g","h","i","j","k","l","m","n","o","p","q","r","s","t","u","v","w","x","y","z"}
DigitChars == {"0","1","2","3","4","5","6","7","8","9"}
SpaceChars == {" "}

LowerOf == [c \in UpperChars |-> CASE c = "A" -> "a" [] c = "B" -> "b" [] c = "C" -> "c" [] c = "D" -> "d" [] c = "E" -> "e" [] c = "F" -> "f" [] c = "G" -> "g" [] c = "H" -> "h" [] c = "I" -> "i" [] c = "J" -> "j" [] c = "K" -> "k" [] c = "L" -> "l" [] c = "M" -> "m" [] c = "N" -> "n" [] c = "O" -> "o" [] c = "P" -> "p" [] c = "Q" -> "q" [] c = "R" -> "r" [] c = "S" -> "s" [] c = "T" -> "t" [] c = "U" -> "u" [] c = "V" -> "v" [] c = "W" -> "w" [] c = "X" -> "x" [] c = "Y" -> "y" [] c = "Z" -> "z"]

\* str.lower()
Lower(s) == [i \in 1..Len(s) |-> IF s[i] \in UpperChars THEN LowerOf[s[i]] ELSE s[i]]

\* str.strip(): leading and trailing whitespace removed
Strip(s) ==
    LET keep == {i \in 1..Len(s) : s[i] \notin SpaceChars}
        lo == CHOOSE i \in keep : \A j \in keep : i <= j
        hi == CHOOSE i \in keep : \A j \in keep : j <= i
    IN IF keep = {} THEN <<>> ELSE SubSeq(s, lo, hi)

\* sub in s
Contains(s, sub) ==
    \E i \in 1..(Len(s) - Len(sub) + 1) : SubSeq(s, i, i + Len(sub) - 1) = sub

\* s[a:b] of Python for 0 <= a, 0 <= b (0-based, end exclusive, clipped)
Slice(s, a, b) ==
    LET hi == IF b > Len(s) THEN Len(s) ELSE b
    IN IF a >= hi THEN <<>> ELSE SubSeq(s, a + 1, hi)

\* the first 1-based position at or after i whose character is outside class
RunEnd(s, i, class) ==
    LET stops == {j \in i..(Len(s) + 1) : j = Len(s) + 1 \/ s[j] \notin class}
    IN CHOOSE j \in stops : \A k \in stops : j <= k

MaxOf(S) == CHOOSE x \in S : \A y \in S : y <= x

-----------------------------------------------------------------------------
(* src/tools/pii_tool.py *)

EmailLocalChars == UpperChars \cup LowerChars \cup DigitChars \cup {".", "_", "%", "+", "-"}
EmailDomainChars == UpperChars \cup LowerChars \cup DigitChars \cup {".", "-"}
AlphaChars == UpperChars \cup LowerChars
PhoneBodyChars == DigitChars \cup {"-", "."} \cup SpaceChars

Str_context == <<"<","c","o","n","t","e","x","t",">">>
Str_stars == <<"*","*","*">>
Str_redacted == <<"[","R","E","D","A","C","T","E","D","]">>

ADDRESS_HINTS ==
    { <<"s","t","r","e","e","t">>, <<"a","v","e">>, <<"r","o","a","d">>,
      <<"r","d">>, <<"s","t"," ">> }

\* EMAIL_RE.match at 1-based position i: the position after the match, 0 if none.
\* [A-Za-z0-9._%+-]+ @ [A-Za-z0-9.-]+ \. [A-Za-z]{2,}, greedy with backtracking
EmailMatchEnd(s, i) ==
    LET a == RunEnd(s, i, EmailLocalChars)
    IN IF a = i \/ a > Len(s) THEN 0
       ELSE IF s[a] # "@" THEN 0
       ELSE LET m == RunEnd(s, a + 1, EmailDomainChars)
                dots == {e \in (a + 2)..(m - 1) :
                            s[e] = "." /\ RunEnd(s, e + 1, AlphaChars) - (e + 1) >= 2}
            IN IF dots = {} THEN 0 ELSE RunEnd(s, MaxOf(dots) + 1, AlphaChars)

\* PHONE_RE.match at 1-based position i: the position after the match, 0 if none.
\* \+? \d [\d\-\.\s]{7,} \d, greedy with backtracking
PhoneMatchEnd(s, i) ==
    LET d0 == IF s[i] = "+" THEN i + 1 ELSE i
    IN IF d0 > Len(s) THEN 0
       ELSE IF s[d0] \notin DigitChars THEN 0
       ELSE LET m == RunEnd(s, d0 + 1, PhoneBodyChars)
                ends == {d \in (d0 + 8)..(m - 1) : s[d] \in DigitChars}
            IN IF ends = {} THEN 0 ELSE MaxOf(ends) + 1

\* re.finditer: leftmost non-overlapping matches, scanning from position i.
\* kind is "email" or "phone"; offsets are reported 0-based, end exclusive.
RECURSIVE FindIter(_, _, _)
FindIter(kind, s, i) ==
    IF i > Len(s) THEN <<>>
    ELSE LET e == IF kind = "email" THEN EmailMatchEnd(s, i) ELSE PhoneMatchEnd(s, i)
         IN IF e = 0 THEN FindIter(kind, s, i + 1)
            ELSE << [pii_type |-> kind, value |-> SubSeq(s, i, e - 1),
                     start |-> i - 1, end |-> e - 1,
                     confidence |-> IF kind = "email" THEN 99 ELSE 90] >>
                 \o FindIter(kind, s, e)

detect(text) ==
    FindIter("email", text, 1) \o FindIter("phone", text, 1)
    \o (IF \E h \in ADDRESS_HINTS : Contains(Lower(text), h)
        THEN << [pii_type |-> "address", value |-> Str_context,
                 start |-> 0, end |-> 0, confidence |-> 60] >>
        ELSE <<>>)

mask_value_first_at(pii_type, value) ==
    IF pii_type = "email"
    THEN LET ats == {i \in 1..Len(value) : value[i] = "@"}
         IN IF ats # {}
            THEN LET i == CHOOSE x \in ats : \A y \in ats : x <= y
                 IN Slice(SubSeq(value, 1, i - 1), 0, 2) \o Str_stars \o <<"@">>
                    \o SubSeq(value, i + 1, Len(value))
            ELSE Str_stars
    ELSE IF pii_type = "phone"
    THEN Str_stars \o (IF Len(value) <= 4 THEN value
                       ELSE SubSeq(value, Len(value) - 3, Len(value)))
    ELSE Str_redacted

\* value.split("@")
RECURSIVE SplitAt(_)
SplitAt(v) ==
    LET ats == {i \in 1..Len(v) : v[i] = "@"}
    IN IF ats = {} THEN <<v>>
       ELSE LET i == CHOOSE x \in ats : \A y \in ats : x <= y
            IN <<SubSeq(v, 1, i - 1)>> \o SplitAt(SubSeq(v, i + 1, Len(v)))

mask_value(pii_type, value) ==
    IF pii_type = "email"
    THEN LET parts == SplitAt(value)
         IN IF Len(parts) = 2
            THEN Slice(parts[1], 0, 2) \o Str_stars \o <<"@">> \o parts[2]
            ELSE Str_stars
    ELSE IF pii_type = "phone"
    THEN Str_stars \o (IF Len(value) <= 4 THEN value
                       ELSE SubSeq(value, Len(value) - 3, Len(value)))
    ELSE Str_redacted

-----------------------------------------------------------------------------
(* The files under data/ (src/tools/filesystem_tool.py read_json, list_files) *)

Str_gmail_ == <<"g","m","a","i","l","_">>
Str_gmail_live_ == <<"g","m","a","i","l","_","l","i","v","e","_">>
Str_gmail_1 == <<"g","m","a","i","l","_","1">>
Str_crm_1 == <<"c","r","m","_","1">>
Str_colon == <<":"," ">>
Str_comma == <<","," ">>
Str_sample_gmail == <<"H","e","l","l","o"," ","A","l","i","c","e",","," ","p","h","o","n","e"," ","+","1","-","5","5","5","-","0","1","0","1">>
Str_sample_crm == <<"A","l","i","c","e",","," ","a","l","i","c","e","@","e","x","a","m","p","l","e",".","c","o","m",","," ","2","2","1","B"," ","B","a","k","e","r"," ","S","t","r","e","e","t">>
Str_alice_email == <<"a","l","i","c","e","@","e","x","a","m","p","l","e",".","c","o","m">>
Str_al_email_raw == <<" ","A","l","@","X",".","i","o">>
Str_al_email == <<"a","l","@","x",".","i","o">>
Str_al_phone == <<"5","5","5","-","0","1","0","-","1","2","3","4">>
Str_subscription == <<"s","u","b","s","c","r","i","p","t","i","o","n">>

\* No data directory: every read_json raises and the inline samples are used.
DataNone == EmptyDict

\* A populated data directory.  A gmail message with valid = FALSE is an entry
\* of the export that is not a JSON object (m.get raises).  A transaction's
\* kind is how its "date" parses: "aware" (ISO-8601 with offset), "naive" (ISO
\* without offset), "unparseable" (fromisoformat raises) or "nonstring";
\* delta_days is (now - date).days for a parseable date.
DataFull ==
    [ gmail_export |->
        << [valid |-> TRUE, id |-> <<"7">>, subject |-> <<"H","i">>,
            body |-> <<"b","o","b","@","x",".","i","o">>],
           [valid |-> FALSE, id |-> <<>>, subject |-> <<>>, body |-> <<>>] >>,
      crm_profile |->
        [ id |-> <<"c","9">>, name |-> <<"A","l">>, email |-> Str_al_email,
          address |-> <<"9"," ","E","l","m"," ","R","d">>,
          phone |-> Str_al_phone, legal_hold |-> TRUE ],
      files |->
        << [readable |-> TRUE, name |-> <<"n",".","t","x","t">>,
            content |-> <<"c","a","l","l"," ">> \o Str_al_phone],
           [readable |-> FALSE, name |-> <<"x">>, content |-> <<>>] >>,
      transaction_history |->
        << [kind |-> "unparseable", delta_days |-> 0, product |-> <<"B","o","o","k">>],
           [kind |-> "aware", delta_days |-> 5,
            product |-> <<"S","u","b","s","c","r","i","p","t","i","o","n">>] >> ]

Worlds == {DataNone, DataFull}

-----------------------------------------------------------------------------
(* policy/policy.yaml (load_policy) *)

DEFAULT_MIN_CONFIDENCE == 85
DEFAULT_ACCESS_DAYS == 30

PolicyStrict ==
    [ identity |-> [min_confidence_for_auto_approval |-> 85],
      require_sections |-> <<"purpose_of_processing", "categories_of_data", "custom_notice">>,
      required_types |-> {"phone"},
      allow_override_with_justification |-> FALSE,
      financial_transaction_days |-> 30,
      active_service_days |-> 0,
      access_days |-> 30 ]

PolicyOverride ==
    [ identity |-> [min_confidence |-> 60],
      require_sections |-> <<"retention_period", "rights_information">>,
      required_types |-> {"phone", "email"},
      allow_override_with_justification |-> TRUE,
      financial_transaction_days |-> 0,
      active_service_days |-> 30,
      access_days |-> 0 ]

PolicyEmpty ==
    [ identity |-> EmptyDict,
      require_sections |-> <<>>,
      required_types |-> {},
      allow_override_with_justification |-> FALSE,
      financial_transaction_days |-> 0,
      active_service_days |-> 0,
      access_days |-> 0 ]

Policies == {PolicyStrict, PolicyOverride, PolicyEmpty}

-----------------------------------------------------------------------------
(* src/agent/plan.py: the run record and the step functions.  A step is an   *)
(* operator from the run record s (PlanRunState plus the plan object's       *)
(* clarifications, the written package and the value returned) to the record *)
(* after the call.                                                           *)

\* {**a, **b}
Merge(a, b) == [k \in (DOMAIN a) \cup (DOMAIN b) |-> IF k \in DOMAIN b THEN b[k] ELSE a[k]]

RECURSIVE IntToStr(_)
IntToStr(n) ==
    LET digit == <<"0","1","2","3","4","5","6","7","8","9">>
    IN IF n < 10 THEN <<digit[n + 1]>> ELSE IntToStr(n \div 10) \o <<digit[(n % 10) + 1]>>

log_front(s, step, detail) ==
    [s EXCEPT !.audit_log = <<Merge([step |-> step], detail)>> \o @]

\* GDPRPlan.log
log(s, step, detail) ==
    [s EXCEPT !.audit_log = Append(@, Merge([step |-> step], detail))]

StepResult(step, ok, err) == [step |-> step, success |-> ok, error |-> err]

known_subject_identifiers_request_only(s, d) ==
    [ emails |-> IF s.subject_email # <<>> THEN {Lower(Strip(s.subject_email))} ELSE {},
      phones |-> {} ]

\* GDPRPlan._known_subject_identifiers
known_subject_identifiers(s, d) ==
    LET e0 == IF s.subject_email # <<>> THEN {Lower(Strip(s.subject_email))} ELSE {}
        crm == Get(d, "crm_profile", EmptyDict)
        e1 == Lower(Strip(Get(crm, "email", <<>>)))
        p1 == Strip(Get(crm, "phone", <<>>))
        e2 == Lower(Strip(Get(s.identity, "email", <<>>)))
        p2 == Strip(Get(s.identity, "phone", <<>>))
    IN [ emails |-> e0 \cup (IF e1 # <<>> THEN {e1} ELSE {}) \cup (IF e2 # <<>> THEN {e2} ELSE {}),
         phones |-> (IF p1 # <<>> THEN {p1} ELSE {}) \cup (IF p2 # <<>> THEN {p2} ELSE {}) ]

\* the threshold verify_identity reads from the policy
identity_threshold(pol) ==
    Get(pol.identity, "min_confidence_for_auto_approval",
        Get(pol.identity, "min_confidence", DEFAULT_MIN_CONFIDENCE))

FALLBACK_CONFIDENCE == 10

identity_status_strict(confidence, threshold) ==
    IF confidence > threshold THEN "verified" ELSE "unverified"

\* status = "verified" if confidence >= threshold else "unverified"
identity_status(confidence, threshold) ==
    IF confidence >= threshold THEN "verified" ELSE "unverified"

verify_identity(s) ==
    LET threshold == identity_threshold(s.policy)
        confidence == Get(s.identity, "precomputed_confidence", FALLBACK_CONFIDENCE)
        status == identity_status(confidence, threshold)
        ident == Put(Put(s.identity, "confidence", confidence), "status", status)
        clar == [ type |-> "IdentityVerificationClarification",
                  payload |-> [threshold |-> threshold,
                               upload |-> Get(ident, "upload", EmptyDict)] ]
        s1 == [s EXCEPT !.identity = ident,
                        !.clarifications = IF status # "verified" THEN Append(@, clar) ELSE @]
        ok == status = "verified"
    IN [log(s1, "verify_identity", ident) EXCEPT
          !.ret = StepResult("verify_identity", ok,
                             IF ok THEN "None" ELSE "Identity not verified")]

discover_sources(s, d) ==
    LET sources == <<"gmail_export", "crm_profile", "files">>
                   \o (IF Has(d, "gmail_live") THEN <<"gmail_live">> ELSE <<>>)
    IN [log(s, "discover_sources", [sources |-> sources]) EXCEPT
          !.ret = StepResult("discover_sources", TRUE, "None")]

\* the gmail_export loop of collect_artifacts: entries up to the first one that
\* raises are appended, then the except branch appends the inline sample
RECURSIVE GmailExportArtifacts(_)
GmailExportArtifacts(msgs) ==
    IF msgs = <<>> THEN <<>>
    ELSE IF ~Head(msgs).valid
    THEN << [source |-> "gmail_export", id |-> Str_gmail_1, type |-> "email",
             content |-> Str_sample_gmail] >>
    ELSE << [source |-> "gmail_export", id |-> Str_gmail_ \o Head(msgs).id,
             type |-> "email",
             content |-> Head(msgs).subject \o Str_colon \o Head(msgs).body] >>
         \o GmailExportArtifacts(Tail(msgs))

RECURSIVE FileArtifacts(_)
FileArtifacts(fs) ==
    IF fs = <<>> THEN <<>>
    ELSE (IF Head(fs).readable
          THEN << [source |-> "files", id |-> Head(fs).name, type |-> "file",
                   content |-> Head(fs).content] >>
          ELSE <<>>)
         \o FileArtifacts(Tail(fs))

RECURSIVE GmailLiveArtifacts(_)
GmailLiveArtifacts(msgs) ==
    IF msgs = <<>> THEN <<>>
    ELSE << [source |-> "gmail_live", id |-> Str_gmail_live_ \o Head(msgs).id,
             type |-> "email",
             content |-> Head(msgs).subject \o Str_colon \o Head(msgs).snippet] >>
         \o GmailLiveArtifacts(Tail(msgs))

collect_artifacts(s, d) ==
    LET gmail == IF Has(d, "gmail_export")
                 THEN GmailExportArtifacts(d.gmail_export)
                 ELSE << [source |-> "gmail_export", id |-> Str_gmail_1,
                          type |-> "email", content |-> Str_sample_gmail] >>
        crm == IF Has(d, "crm_profile")
               THEN << [source |-> "crm_profile",
                        id |-> Get(d.crm_profile, "id", Str_crm_1),
                        type |-> "profile",
                        content |-> Get(d.crm_profile, "name", <<>>) \o Str_comma
                                    \o Get(d.crm_profile, "email", <<>>) \o Str_comma
                                    \o Get(d.crm_profile, "address", <<>>) \o Str_comma
                                    \o Get(d.crm_profile, "phone", <<>>)] >>
               ELSE << [source |-> "crm_profile", id |-> Str_crm_1,
                        type |-> "profile", content |-> Str_sample_crm] >>
        files == IF Has(d, "files") THEN FileArtifacts(d.files) ELSE <<>>
        live == IF Has(d, "gmail_live") THEN GmailLiveArtifacts(d.gmail_live) ELSE <<>>
        arts == gmail \o crm \o files \o live
    IN [log([s EXCEPT !.artifacts = arts], "collect_artifacts", [count |-> Len(arts)])
          EXCEPT !.ret = StepResult("collect_artifacts", TRUE, "None")]

\* the findings detect_pii derives from one artifact
ArtifactFindings(art, ids) ==
    LET fs == detect(art.content)
    IN [ i \in 1..Len(fs) |->
           [ artifact_id |-> art.id,
             pii_type |-> fs[i].pii_type,
             value |-> fs[i].value,
             start |-> fs[i].start,
             end |-> fs[i].end,
             confidence |-> fs[i].confidence,
             third_party |->
                IF fs[i].pii_type = "email"
                THEN Lower(Strip(fs[i].value)) \notin ids.emails
                ELSE IF fs[i].pii_type = "phone"
                THEN Strip(fs[i].value) \notin ids.phones
                ELSE FALSE ] ]

RECURSIVE AllFindings(_, _)
AllFindings(arts, ids) ==
    IF arts = <<>> THEN <<>>
    ELSE ArtifactFindings(Head(arts), ids) \o AllFindings(Tail(arts), ids)

ThirdPartyCount(xs) == Cardinality({i \in 1..Len(xs) : xs[i].third_party})

detect_pii(s, d) ==
    LET findings == AllFindings(s.artifacts, known_subject_identifiers(s, d))
    IN [log([s EXCEPT !.pii_findings = findings], "detect_pii",
            [count |-> Len(findings), third_party |-> ThirdPartyCount(findings)])
          EXCEPT !.ret = StepResult("detect_pii", TRUE, "None")]

apply_minimization_no_third_party(s) ==
    LET proposals ==
          [ i \in 1..Len(s.pii_findings) |->
              LET f == s.pii_findings[i]
              IN [ id |-> <<"p">> \o IntToStr(i - 1),
                   artifact_id |-> f.artifact_id,
                   pii_type |-> f.pii_type,
                   value |-> f.value,
                   masked_preview |-> mask_value(f.pii_type, f.value),
                   start |-> f.start,
                   end |-> f.end,
                   action |-> "mask",
                   third_party |-> FALSE ] ]
    IN [log([s EXCEPT !.redaction_proposals = proposals], "apply_minimization",
            [proposals |-> Len(proposals), third_party |-> ThirdPartyCount(proposals)])
          EXCEPT !.ret = StepResult("apply_minimization", TRUE, "None")]

apply_minimization(s) ==
    LET proposals ==
          [ i \in 1..Len(s.pii_findings) |->
              LET f == s.pii_findings[i]
              IN [ id |-> <<"p">> \o IntToStr(i - 1),
                   artifact_id |-> f.artifact_id,
                   pii_type |-> f.pii_type,
                   value |-> f.value,
                   masked_preview |-> mask_value(f.pii_type, f.value),
                   start |-> f.start,
                   end |-> f.end,
                   action |-> "mask",
                   third_party |-> f.third_party ] ]
    IN [log([s EXCEPT !.redaction_proposals = proposals], "apply_minimization",
            [proposals |-> Len(proposals), third_party |-> ThirdPartyCount(proposals)])
          EXCEPT !.ret = StepResult("apply_minimization", TRUE, "None")]

\* list(dict.keys()) after inserting the keys of xs in order
RECURSIVE KeysInOrder(_)
KeysInOrder(xs) ==
    IF xs = <<>> THEN <<>>
    ELSE LET rest == KeysInOrder(SubSeq(xs, 1, Len(xs) - 1))
             x == xs[Len(xs)]
         IN IF \E i \in 1..Len(rest) : rest[i] = x THEN rest ELSE Append(rest, x)

\* the content assemble_disclosure renders for one required section key
SectionContent(key, s) ==
    IF key = "purpose_of_processing" THEN [text |-> "purpose"]
    ELSE IF key = "categories_of_data"
    THEN [ pii_categories |-> {s.pii_findings[i].pii_type : i \in 1..Len(s.pii_findings)},
           artifact_types |-> {s.artifacts[i].type : i \in 1..Len(s.artifacts)} ]
    ELSE IF key = "recipients" THEN [text |-> "recipients"]
    ELSE IF key = "retention_period"
    THEN [retention_days |-> IF s.policy.access_days = 0 THEN DEFAULT_ACCESS_DAYS
                             ELSE s.policy.access_days]
    ELSE IF key = "rights_information" THEN [text |-> "rights"]
    ELSE [text |-> "Provided."]

assemble_disclosure_known_only(s) ==
    LET required == s.policy.require_sections
        known == {"purpose_of_processing", "categories_of_data", "recipients",
                  "retention_period", "rights_information"}
        disc == [k \in {required[i] : i \in 1..Len(required)} \cap known
                   |-> SectionContent(k, s)]
    IN [log([s EXCEPT !.disclosures = disc], "assemble_disclosure",
            [records |-> Len(s.artifacts), pii |-> Len(s.pii_findings),
             disclosures |-> KeysInOrder(required)])
          EXCEPT !.ret = StepResult("assemble_disclosure", TRUE, "None")]

assemble_disclosure(s) ==
    LET required == s.policy.require_sections
        disc == [k \in {required[i] : i \in 1..Len(required)} |-> SectionContent(k, s)]
    IN [log([s EXCEPT !.disclosures = disc], "assemble_disclosure",
            [records |-> Len(s.artifacts), pii |-> Len(s.pii_findings),
             disclosures |-> KeysInOrder(required)])
          EXCEPT !.ret = StepResult("assemble_disclosure", TRUE, "None")]

request_compliance_approval_auto(s) ==
    LET clar == [ type |-> "ComplianceApprovalClarification",
                  payload |-> [decision |-> "approved", justification |-> ""] ]
    IN [log([s EXCEPT !.clarifications = Append(@, clar),
                      !.approvals = Put(@, "compliance", clar.payload)],
            "request_compliance_approval", [pending |-> TRUE])
          EXCEPT !.ret = clar]

request_compliance_approval(s) ==
    LET clar == [ type |-> "ComplianceApprovalClarification",
                  payload |->
                    [ summary |->
                        [ records |-> Len(s.artifacts),
                          pii_categories |->
                            {s.pii_findings[i].pii_type : i \in 1..Len(s.pii_findings)},
                          third_party_findings |-> ThirdPartyCount(s.redaction_proposals) ],
                      redaction_proposals |-> s.redaction_proposals,
                      decision |-> "pending",
                      justification |-> "" ] ]
    IN [log([s EXCEPT !.clarifications = Append(@, clar)],
            "request_compliance_approval", [pending |-> TRUE])
          EXCEPT !.ret = clar]

\* sorted(plist, key=start, reverse=True): stable, descending by start
RECURSIVE SortByStartDesc(_)
SortByStartDesc(ps) ==
    IF ps = <<>> THEN <<>>
    ELSE LET rest == SortByStartDesc(SubSeq(ps, 1, Len(ps) - 1))
             p == ps[Len(ps)]
             before == {i \in 1..Len(rest) : rest[i].start >= p.start}
             k == IF before = {} THEN 0 ELSE MaxOf(before)
         IN SubSeq(rest, 1, k) \o <<p>> \o SubSeq(rest, k + 1, Len(rest))

\* the inner loop of finalize_delivery: the proposals of one artifact, already
\* sorted, applied to its text; a proposal with offsets out of range is skipped
RECURSIVE ApplyProposals(_, _)
ApplyProposals(text, ps) ==
    IF ps = <<>> THEN text
    ELSE LET p == Head(ps)
             masked == mask_value(p.pii_type, p.value)
             t1 == IF 0 <= p.start /\ p.start <= p.end /\ p.end <= Len(text)
                   THEN Slice(text, 0, p.start) \o masked \o Slice(text, p.end, Len(text))
                   ELSE text
         IN ApplyProposals(t1, Tail(ps))

\* selected_ids of finalize_delivery: an empty or absent selection selects all
finalize_selected_ids(s) ==
    LET sel == Get(s.approvals, "selected_proposals", {})
    IN IF sel = {} THEN {s.redaction_proposals[i].id : i \in 1..Len(s.redaction_proposals)}
       ELSE sel

RECURSIVE ApplyProposals_unchecked(_, _)
ApplyProposals_unchecked(text, ps) ==
    IF ps = <<>> THEN text
    ELSE LET p == Head(ps)
             masked == mask_value(p.pii_type, p.value)
             a == IF p.start < 0 THEN 0 ELSE p.start
             b == IF p.end < a THEN a ELSE p.end
         IN ApplyProposals_unchecked(
                Slice(text, 0, a) \o masked \o Slice(text, b, Len(text)), Tail(ps))

redacted_artifacts_unchecked(s) ==
    LET sel == finalize_selected_ids(s)
        props == s.redaction_proposals
        artIds == {s.artifacts[i].id : i \in 1..Len(s.artifacts)}
        chosen(aid) == SelectSeq(props, LAMBDA p : p.id \in sel /\ p.artifact_id = aid)
        propIds == {props[i].artifact_id : i \in {j \in 1..Len(props) : props[j].id \in sel}}
        original(aid) ==
            IF aid \in artIds
            THEN s.artifacts[MaxOf({i \in 1..Len(s.artifacts) : s.artifacts[i].id = aid})].content
            ELSE <<>>
    IN [ aid \in artIds \cup propIds |->
           ApplyProposals_unchecked(original(aid), SortByStartDesc(chosen(aid))) ]

\* art_id_to_text after the redaction loop of finalize_delivery
redacted_artifacts(s) ==
    LET sel == finalize_selected_ids(s)
        props == s.redaction_proposals
        artIds == {s.artifacts[i].id : i \in 1..Len(s.artifacts)}
        chosen(aid) == SelectSeq(props, LAMBDA p : p.id \in sel /\ p.artifact_id = aid)
        propIds == {props[i].artifact_id : i \in {j \in 1..Len(props) : props[j].id \in sel}}
        original(aid) ==
            IF aid \in artIds
            THEN s.artifacts[MaxOf({i \in 1..Len(s.artifacts) : s.artifacts[i].id = aid})].content
            ELSE <<>>
    IN [ aid \in artIds \cup propIds |->
           ApplyProposals(original(aid), SortByStartDesc(chosen(aid))) ]

compliance_approved_any(s) ==
    Get(Get(s.approvals, "compliance", EmptyDict), "decision", "None") # "None"

\* approved = approvals.get("compliance", {}).get("decision") == "approved"
compliance_approved(s) ==
    Get(Get(s.approvals, "compliance", EmptyDict), "decision", "None") = "approved"

finalize_delivery_inplace(s, zip_ok) ==
    LET approved == compliance_approved(s)
        sel == finalize_selected_ids(s)
        red == redacted_artifacts(s)
        pkg == [ redacted_artifacts |-> red,
                 applied_proposals |->
                    SelectSeq(s.redaction_proposals, LAMBDA p : p.id \in sel),
                 disclosures |-> s.disclosures ]
        path == "out/rid.zip"
        arts == [ i \in 1..Len(s.artifacts) |->
                    [s.artifacts[i] EXCEPT !.content = red[s.artifacts[i].id]] ]
    IN IF ~approved
       THEN [s EXCEPT !.ret = StepResult("finalize_delivery", FALSE, "Not approved")]
       ELSE IF ~zip_ok
       THEN [s EXCEPT !.ret = [step |-> "finalize_delivery", raised |-> TRUE]]
       ELSE [log([s EXCEPT !.package = pkg, !.delivery = [path |-> path],
                           !.artifacts = arts],
                 "finalize_delivery", [delivered |-> TRUE, path |-> path])
               EXCEPT !.ret = StepResult("finalize_delivery", TRUE, "None")]

\* zip_ok: whether write_disclosure_zip returns (TRUE) or raises (FALSE)
finalize_delivery(s, zip_ok) ==
    LET approved == compliance_approved(s)
        sel == finalize_selected_ids(s)
        pkg == [ redacted_artifacts |-> redacted_artifacts(s),
                 applied_proposals |->
                    SelectSeq(s.redaction_proposals, LAMBDA p : p.id \in sel),
                 disclosures |-> s.disclosures ]
        path == "out/rid.zip"
    IN IF ~approved
       THEN [s EXCEPT !.ret = StepResult("finalize_delivery", FALSE, "Not approved")]
       ELSE IF ~zip_ok
       THEN [s EXCEPT !.ret = [step |-> "finalize_delivery", raised |-> TRUE]]
       ELSE [log([s EXCEPT !.package = pkg, !.delivery = [path |-> path]],
                 "finalize_delivery", [delivered |-> TRUE, path |-> path])
               EXCEPT !.ret = StepResult("finalize_delivery", TRUE, "None")]

RECURSIVE ScanTransactions_fatal(_, _, _, _)
ScanTransactions_fatal(txns, fin_days, svc_days, acc) ==
    IF txns = <<>> THEN acc
    ELSE LET t == Head(txns)
         IN IF t.kind \in {"nonstring", "unparseable", "naive"} THEN acc
            ELSE ScanTransactions_fatal(Tail(txns), fin_days, svc_days,
                   << acc[1] \/ (fin_days > 0 /\ t.delta_days < fin_days),
                      acc[2] \/ (svc_days > 0
                                 /\ Contains(Lower(t.product), Str_subscription)
                                 /\ t.delta_days < svc_days) >>)

\* the transaction loop of evaluate_legal_basis; acc = <<retain_financial,
\* retain_active_service>>.  A naive date makes (now - dt) raise, which the
\* outer try catches: the loop ends with the flags as they are.
RECURSIVE ScanTransactions(_, _, _, _)
ScanTransactions(txns, fin_days, svc_days, acc) ==
    IF txns = <<>> THEN acc
    ELSE LET t == Head(txns)
         IN IF t.kind \in {"nonstring", "unparseable"}
            THEN ScanTransactions(Tail(txns), fin_days, svc_days, acc)
            ELSE IF t.kind = "naive" THEN acc
            ELSE ScanTransactions(Tail(txns), fin_days, svc_days,
                   << acc[1] \/ (fin_days > 0 /\ t.delta_days < fin_days),
                      acc[2] \/ (svc_days > 0
                                 /\ Contains(Lower(t.product), Str_subscription)
                                 /\ t.delta_days < svc_days) >>)

evaluate_legal_basis_fatal(s, d) ==
    LET hold == Get(s.legal, "hold", FALSE)
        fin_days == s.policy.financial_transaction_days
        svc_days == s.policy.active_service_days
        flags == IF Has(d, "transaction_history")
                 THEN ScanTransactions_fatal(d.transaction_history, fin_days, svc_days,
                                             <<FALSE, FALSE>>)
                 ELSE <<FALSE, FALSE>>
        reasons == (IF hold THEN <<"legal_hold">> ELSE <<>>)
                   \o (IF flags[1] THEN <<"retain_financial_records">> ELSE <<>>)
                   \o (IF flags[2] THEN <<"retain_active_service">> ELSE <<>>)
        allow_erasure == reasons = <<>>
        lg == Merge(s.legal, [ hold |-> hold,
                               retain_financial_records |-> flags[1],
                               retain_active_service |-> flags[2],
                               allow_erasure |-> allow_erasure ])
    IN [log([s EXCEPT !.legal = lg], "evaluate_legal_basis",
            [legal_hold |-> hold, reasons |-> reasons, allow_erasure |-> allow_erasure])
          EXCEPT !.ret = StepResult("evaluate_legal_basis", TRUE, "None")]

evaluate_legal_basis(s, d) ==
    LET hold == Get(s.legal, "hold", FALSE)
        fin_days == s.policy.financial_transaction_days
        svc_days == s.policy.active_service_days
        flags == IF Has(d, "transaction_history")
                 THEN ScanTransactions(d.transaction_history, fin_days, svc_days,
                                       <<FALSE, FALSE>>)
                 ELSE <<FALSE, FALSE>>
        reasons == (IF hold THEN <<"legal_hold">> ELSE <<>>)
                   \o (IF flags[1] THEN <<"retain_financial_records">> ELSE <<>>)
                   \o (IF flags[2] THEN <<"retain_active_service">> ELSE <<>>)
        allow_erasure == reasons = <<>>
        lg == Merge(s.legal, [ hold |-> hold,
                               retain_financial_records |-> flags[1],
                               retain_active_service |-> flags[2],
                               allow_erasure |-> allow_erasure ])
    IN [log([s EXCEPT !.legal = lg], "evaluate_legal_basis",
            [legal_hold |-> hold, reasons |-> reasons, allow_erasure |-> allow_erasure])
          EXCEPT !.ret = StepResult("evaluate_legal_basis", TRUE, "None")]

request_legal_approval(s) ==
    LET clar == [ type |-> "LegalApprovalClarification",
                  payload |->
                    [ request_type |-> "erasure",
                      exemptions |-> IF Get(s.legal, "hold", FALSE)
                                     THEN <<"legal_hold">> ELSE <<>>,
                      decision |-> "pending",
                      notes |-> "" ] ]
    IN [log([s EXCEPT !.clarifications = Append(@, clar)],
            "request_legal_approval", [pending |-> TRUE])
          EXCEPT !.ret = clar]

execute_erasure_accumulate(s) ==
    LET deleted == [ i \in 1..Len(s.artifacts) |->
                       [ id |-> s.artifacts[i].id, source |-> s.artifacts[i].source,
                         status |-> "deleted" ] ]
    IN [log([s EXCEPT !.erasure = [deleted |-> Get(@, "deleted", <<>>) \o deleted]],
            "execute_erasure", [count |-> Len(deleted)])
          EXCEPT !.ret = StepResult("execute_erasure", TRUE, "None")]

execute_erasure(s) ==
    LET deleted == [ i \in 1..Len(s.artifacts) |->
                       [ id |-> s.artifacts[i].id, source |-> s.artifacts[i].source,
                         status |-> "deleted" ] ]
    IN [log([s EXCEPT !.erasure = [deleted |-> deleted]], "execute_erasure",
            [count |-> Len(deleted)])
          EXCEPT !.ret = StepResult("execute_erasure", TRUE, "None")]

confirm_completion(s) ==
    [log(s, "confirm_completion",
         [erasure_confirmed |-> TRUE, deleted |-> Len(Get(s.erasure, "deleted", <<>>))])
       EXCEPT !.ret = StepResult("confirm_completion", TRUE, "None")]

-----------------------------------------------------------------------------
(* src/agent/hooks.py: the guardrails.  A decision is a dict with "allow"   *)
(* and, on a denial, "reason".                                               *)

Allow == [allow |-> TRUE]
Deny(reason) == [allow |-> FALSE, reason |-> reason]

pre_step_guard_open(s, step) == Allow

pre_step_guard(s, step) ==
    IF step \in {"discover_sources", "collect_artifacts"}
       /\ Get(s.identity, "status", "None") # "verified"
    THEN Deny(<<"Identity not verified">>)
    ELSE Allow

missing_disclosures_first(s) ==
    LET m == SelectSeq(s.policy.require_sections, LAMBDA k : k \notin DOMAIN s.disclosures)
    IN IF m = <<>> THEN m ELSE <<m[1]>>

\* the required sections absent from disclosures, in policy order
missing_disclosures(s) ==
    SelectSeq(s.policy.require_sections, LAMBDA k : k \notin DOMAIN s.disclosures)

\* the number of required findings with no selected proposal at their key
unmatched_required(s) ==
    LET required_types == s.policy.required_types
        selected_ids == Get(s.approvals, "selected_proposals", {})
        props == s.redaction_proposals
        selected_keys ==
            { <<props[i].artifact_id, props[i].start, props[i].end>> :
                i \in {j \in 1..Len(props) :
                         props[j].id \in selected_ids /\ props[j].pii_type \in required_types} }
    IN Cardinality({ i \in 1..Len(s.pii_findings) :
                       /\ s.pii_findings[i].pii_type \in required_types
                       /\ <<s.pii_findings[i].artifact_id, s.pii_findings[i].start,
                            s.pii_findings[i].end>> \notin selected_keys })

missing_required_capped(s) == IF unmatched_required(s) > 0 THEN 1 ELSE 0

\* missing_required of pre_finalize_guard
missing_required(s) == unmatched_required(s)

pre_finalize_guard_nohold(s) ==
    IF missing_disclosures(s) # <<>>
    THEN Deny(<<"Missing disclosures: ">> \o missing_disclosures(s))
    ELSE IF missing_required(s) > 0
    THEN IF s.policy.allow_override_with_justification
            /\ Get(Get(s.approvals, "compliance", EmptyDict), "justification", "") # ""
         THEN Allow
         ELSE Deny(<<"Missing required redactions: ", ToString(missing_required(s))>>)
    ELSE Allow

pre_finalize_guard_noredact(s) ==
    IF Get(s.legal, "hold", FALSE) = TRUE
    THEN Deny(<<"Legal hold active">>)
    ELSE IF missing_disclosures(s) # <<>>
    THEN Deny(<<"Missing disclosures: ">> \o missing_disclosures(s))
    ELSE Allow

pre_finalize_guard_nojust(s) ==
    IF Get(s.legal, "hold", FALSE) = TRUE
    THEN Deny(<<"Legal hold active">>)
    ELSE IF missing_disclosures(s) # <<>>
    THEN Deny(<<"Missing disclosures: ">> \o missing_disclosures(s))
    ELSE IF missing_required(s) > 0
    THEN IF s.policy.allow_override_with_justification
         THEN Allow
         ELSE Deny(<<"Missing required redactions: ", ToString(missing_required(s))>>)
    ELSE Allow

pre_finalize_guard(s) ==
    IF Get(s.legal, "hold", FALSE) = TRUE
    THEN Deny(<<"Legal hold active">>)
    ELSE IF missing_disclosures(s) # <<>>
    THEN Deny(<<"Missing disclosures: ">> \o missing_disclosures(s))
    ELSE IF missing_required(s) > 0
    THEN IF s.policy.allow_override_with_justification
            /\ Get(Get(s.approvals, "compliance", EmptyDict), "justification", "") # ""
         THEN Allow
         ELSE Deny(<<"Missing required redactions: ", ToString(missing_required(s))>>)
    ELSE Allow

pre_erasure_guard_noapproval(s) ==
    IF Get(s.legal, "hold", FALSE) = TRUE
    THEN Deny(<<"Legal hold active">>)
    ELSE IF Get(s.legal, "allow_erasure", TRUE) = FALSE
    THEN Deny(<<"Legal basis not met">>)
    ELSE Allow

pre_erasure_guard_approval_first(s) ==
    IF Get(Get(s.approvals, "legal", EmptyDict), "decision", "None") # "approved"
    THEN Deny(<<"Legal approval missing">>)
    ELSE IF Get(s.legal, "hold", FALSE) = TRUE
    THEN Deny(<<"Legal hold active">>)
    ELSE IF Get(s.legal, "allow_erasure", TRUE) = FALSE
    THEN Deny(<<"Legal basis not met">>)
    ELSE Allow

pre_erasure_guard_service_first(s) ==
    IF Get(s.legal, "hold", FALSE) = TRUE
    THEN Deny(<<"Legal hold active">>)
    ELSE IF Get(Get(s.approvals, "legal", EmptyDict), "decision", "None") # "approved"
    THEN Deny(<<"Legal approval missing">>)
    ELSE IF Get(s.legal, "allow_erasure", TRUE) = FALSE
    THEN IF Get(s.legal, "retain_active_service", FALSE)
         THEN Deny(<<"Data retained for active service contract">>)
         ELSE IF Get(s.legal, "retain_financial_records", FALSE)
         THEN Deny(<<"Data retained for financial regulations">>)
         ELSE Deny(<<"Legal basis not met">>)
    ELSE Allow

pre_erasure_guard(s) ==
    IF Get(s.legal, "hold", FALSE) = TRUE
    THEN Deny(<<"Legal hold active">>)
    ELSE IF Get(Get(s.approvals, "legal", EmptyDict), "decision", "None") # "approved"
    THEN Deny(<<"Legal approval missing">>)
    ELSE IF Get(s.legal, "allow_erasure", TRUE) = FALSE
    THEN IF Get(s.legal, "retain_financial_records", FALSE)
         THEN Deny(<<"Data retained for financial regulations">>)
         ELSE IF Get(s.legal, "retain_active_service", FALSE)
         THEN Deny(<<"Data retained for active service contract">>)
         ELSE Deny(<<"Legal basis not met">>)
    ELSE Allow

-----------------------------------------------------------------------------
(* src/server/app.py: the handlers, on the one run of the model *)

MaxCalls == 2

\* state.__dict__ plus what the handler's plan object carries
Run ==
    [ subject_email |-> subject_email, request_types |-> request_types,
      artifacts |-> artifacts, pii_findings |-> pii_findings,
      redaction_proposals |-> redaction_proposals, approvals |-> approvals,
      policy |-> policy, identity |-> identity, legal |-> legal,
      audit_log |-> audit_log, disclosures |-> disclosures,
      delivery |-> delivery, erasure |-> erasure,
      clarifications |-> clarifications, package |-> package, ret |-> ret ]

\* the run record after the handler; the handler's response replaces s.ret
Commit(s, response) ==
    \E r \in {s}, resp \in {response} :
        /\ subject_email' = r.subject_email
        /\ request_types' = r.request_types
        /\ artifacts' = r.artifacts
        /\ pii_findings' = r.pii_findings
        /\ redaction_proposals' = r.redaction_proposals
        /\ approvals' = r.approvals
        /\ policy' = r.policy
        /\ identity' = r.identity
        /\ legal' = r.legal
        /\ audit_log' = r.audit_log
        /\ disclosures' = r.disclosures
        /\ delivery' = r.delivery
        /\ erasure' = r.erasure
        /\ clarifications' = r.clarifications
        /\ package' = r.package
        /\ ret' = resp

\* PlanRunState(request_id, subject_email, request_types, policy) and GDPRPlan(state)
NewRun(subject, request_type, pol) ==
    [ subject_email |-> subject, request_types |-> <<request_type>>,
      artifacts |-> <<>>, pii_findings |-> <<>>, redaction_proposals |-> <<>>,
      approvals |-> EmptyDict, policy |-> pol, identity |-> EmptyDict,
      legal |-> EmptyDict, audit_log |-> <<>>, disclosures |-> EmptyDict,
      delivery |-> EmptyDict, erasure |-> EmptyDict,
      clarifications |-> <<>>, package |-> EmptyDict, ret |-> EmptyDict ]

Str_alice == <<"a","l","i","c","e">>

\* The id_image of the form: "none" (no upload), "unreadable" (read raises), or
\* an upload with a filename and a size.
Uploads ==
    { [kind |-> "none", filename |-> <<>>, size |-> 0],
      [kind |-> "unreadable", filename |-> <<>>, size |-> 0],
      [kind |-> "file", filename |-> <<"A","l","i","c","e",".","p","n","g">>, size |-> 1],
      [kind |-> "file", filename |-> <<"i","d",".","p","n","g">>, size |-> 1],
      [kind |-> "file", filename |-> <<"A","l","i","c","e",".","p","n","g">>, size |-> 0] }

CONFIDENCE_NONE == 10
CONFIDENCE_ALICE == 95
CONFIDENCE_OTHER == 60

\* the identity new_dsar records for an upload
precomputed_identity(up) ==
    IF up.kind = "unreadable" THEN [precomputed_confidence |-> CONFIDENCE_NONE]
    ELSE IF up.kind = "none"
    THEN [upload |-> EmptyDict, precomputed_confidence |-> CONFIDENCE_NONE]
    ELSE [ upload |-> [filename |-> up.filename, size |-> up.size],
           precomputed_confidence |->
              IF up.size > 0
              THEN IF Contains(Lower(up.filename), Str_alice)
                   THEN CONFIDENCE_ALICE ELSE CONFIDENCE_OTHER
              ELSE CONFIDENCE_NONE ]

\* the legal dict new_dsar seeds from the CRM profile
seeded_legal(d) ==
    LET crm == Get(d, "crm_profile", [legal_hold |-> FALSE])
    IN IF Has(crm, "legal_hold") THEN [hold |-> crm.legal_hold] ELSE EmptyDict

\* new_dsar from the seeding of the record to assemble_disclosure; it returns
\* after verify_identity when that step fails or pre_step_guard denies
new_dsar_steps(subject, request_type, up, pol, d) ==
    LET s0 == [NewRun(subject, request_type, pol) EXCEPT
                 !.legal = seeded_legal(d), !.identity = precomputed_identity(up)]
        \* each step runs once, on the record the step before it left
        collection(s1) ==
            CHOOSE r \in
              { assemble_disclosure(s5) :
                  s5 \in { apply_minimization(s4) :
                  s4 \in { detect_pii(s3, d) :
                  s3 \in { collect_artifacts(s2, d) :
                  s2 \in { discover_sources(s1, d) } } } } } : TRUE
    IN CHOOSE r \in
         { IF ~s1.ret.success THEN s1
           ELSE IF ~pre_step_guard(s1, "discover_sources").allow THEN s1
           ELSE collection(s1) : s1 \in { verify_identity(s0) } } : TRUE

\* llm_ok: whether PortiaLLM() and summarize return (TRUE) or raise (FALSE); a
\* raise leaves the handler before RUNS[rid] = state
new_dsar(subject, request_type, up, llm_ok) ==
    /\ last = "init"
    /\ \E s \in {new_dsar_steps(subject, request_type, up, policy, data)} :
          LET early == s.ret.step = "verify_identity"
              s7 == request_compliance_approval(s)
              s8 == [s7 EXCEPT !.approvals =
                       Merge(@, [ summary_llm |-> "text", portia_plan_run_json |-> "text",
                                  portia_compliance_clarification_json |-> "text" ])]
          IN IF early THEN Commit(s, [status |-> 303]) /\ stored' = TRUE
             ELSE IF ~llm_ok THEN Commit(s, [status |-> 500]) /\ stored' = FALSE
             ELSE Commit(s8, [status |-> 303]) /\ stored' = TRUE
    /\ last' = "new_dsar"
    /\ UNCHANGED <<data, calls>>

\* value of toggle_legal_hold: str(hold).strip().lower() in {"1","true","yes","on"}
toggle_legal_hold(value) ==
    /\ IF ~stored
       THEN Commit(Run, [status |-> 404])
       ELSE Commit([Run EXCEPT !.legal = Put(@, "hold", value),
                               !.audit_log = Append(@, [step |-> "legal_hold_set",
                                                        hold |-> value])],
                   [status |-> 303])
    /\ last' = "toggle_legal_hold"
    /\ calls' = calls + 1
    /\ UNCHANGED <<data, stored>>

\* the approvals approve records before any guard runs
approve_record(s, decision, justification, approval_type, selected) ==
    IF approval_type = "legal"
    THEN [s EXCEPT !.approvals =
            Put(@, "legal", [decision |-> decision, justification |-> justification])]
    ELSE [s EXCEPT !.approvals =
            Put(Put(@, "compliance", [decision |-> decision, justification |-> justification]),
                "selected_proposals", selected)]

approve_compliance_terminal(s, zip_ok) ==
    LET guard == pre_finalize_guard(s)
        f == finalize_delivery([s EXCEPT !.clarifications = <<>>], zip_ok)
        was_blocked == \E i \in 1..Len(s.audit_log) : Has(s.audit_log[i], "blocked")
        reason == IF guard.allow THEN <<"Blocked">> ELSE guard.reason
    IN IF ~guard.allow \/ was_blocked
       THEN [s EXCEPT
               !.audit_log = Append(@, [step |-> "finalize_delivery", blocked |-> TRUE,
                                        reason |-> reason]),
               !.approvals = Put(Put(@, "portia_guardrail_event_json", "text"),
                                 "compliance_status",
                                 [status |-> "blocked", reason |-> reason])]
       ELSE IF Has(f.ret, "raised") THEN f
       ELSE [f EXCEPT !.approvals =
               Put(Put(@, "portia_compliance_decision_json", "text"),
                   "compliance_status", [status |-> "delivered"])]

\* the compliance branch of approve: guard, then blocked record or finalize
approve_compliance(s, zip_ok) ==
    LET guard == pre_finalize_guard(s)
        f == finalize_delivery([s EXCEPT !.clarifications = <<>>], zip_ok)
    IN IF ~guard.allow
       THEN [s EXCEPT
               !.audit_log = Append(@, [step |-> "finalize_delivery", blocked |-> TRUE,
                                        reason |-> guard.reason]),
               !.approvals = Put(Put(@, "portia_guardrail_event_json", "text"),
                                 "compliance_status",
                                 [status |-> "blocked", reason |-> guard.reason])]
       ELSE IF Has(f.ret, "raised") THEN f
       ELSE [f EXCEPT !.approvals =
               Put(Put(@, "portia_compliance_decision_json", "text"),
                   "compliance_status", [status |-> "delivered"])]

\* the erasure branch of approve
approve_erasure(s, d) ==
    LET s1 == evaluate_legal_basis([s EXCEPT !.clarifications = <<>>], d)
        eguard == pre_erasure_guard(s1)
        s2 == confirm_completion(execute_erasure(s1))
    IN IF ~eguard.allow
       THEN [s1 EXCEPT
               !.audit_log = Append(@, [step |-> "execute_erasure", blocked |-> TRUE,
                                        reason |-> eguard.reason]),
               !.approvals = Put(@, "legal_status",
                                 [status |-> "blocked", reason |-> eguard.reason])]
       ELSE [s2 EXCEPT !.approvals =
               Put(@, "legal_status",
                   [status |-> "erasure_executed",
                    deleted |-> Len(Get(s2.erasure, "deleted", <<>>))])]

approve_run_unscoped(s, d, decision, justification, approval_type, selected, zip_ok) ==
    LET s1 == approve_record(s, decision, justification, approval_type, selected)
        s2 == IF approval_type = "compliance" THEN approve_compliance(s1, zip_ok) ELSE s1
        raised == Has(s2.ret, "raised")
        s3 == IF ~raised
                 /\ \E i \in 1..Len(s2.request_types) : s2.request_types[i] = "erasure"
              THEN approve_erasure(s2, d) ELSE s2
    IN [s3 EXCEPT !.ret = [status |-> IF raised THEN 500 ELSE 303]]

approve_run(s, d, decision, justification, approval_type, selected, zip_ok) ==
    LET s1 == approve_record(s, decision, justification, approval_type, selected)
        s2 == IF approval_type = "compliance" THEN approve_compliance(s1, zip_ok) ELSE s1
        raised == Has(s2.ret, "raised")
        s3 == IF ~raised /\ approval_type = "legal"
                 /\ \E i \in 1..Len(s2.request_types) : s2.request_types[i] = "erasure"
              THEN approve_erasure(s2, d) ELSE s2
    IN [s3 EXCEPT !.ret = [status |-> IF raised THEN 500 ELSE 303]]

approve(decision, justification, approval_type, selected, zip_ok) ==
    /\ IF ~stored
       THEN Commit(Run, [status |-> 404])
       ELSE LET s == approve_run(Run, data, decision, justification, approval_type,
                                 selected, zip_ok)
            IN Commit(s, s.ret)
    /\ last' = "approve"
    /\ calls' = calls + 1
    /\ UNCHANGED <<data, stored>>

-----------------------------------------------------------------------------
(* The driver: one request is submitted, then approvals and hold toggles *)

SubjectEmails == {Str_alice_email, Str_al_email_raw}
RequestTypes == {"access", "erasure"}
Decisions == {"approved", "rejected"}
Justifications == {"", "business need"}
\* approval_type is free text: any value but "legal" is recorded as a compliance
\* decision, and only "compliance" goes on to the finalize guard
ApprovalTypes == {"compliance", "legal", "identity"}

\* the proposal check boxes a reviewer ticks: none, all, those of a type the
\* policy requires, the first
SelectionsOf(props, pol) ==
    { {},
      {props[i].id : i \in 1..Len(props)},
      {props[i].id : i \in {j \in 1..Len(props) : props[j].pii_type \in pol.required_types}},
      {props[i].id : i \in {j \in 1..Len(props) : j = 1}} }

\* the inputs approve reads: the ticked proposals are recorded unless
\* approval_type is "legal", and the zip is written only under "compliance"
FormSelections(approval_type) ==
    IF approval_type = "legal" THEN {{}} ELSE SelectionsOf(redaction_proposals, policy)

ZipOutcomes(approval_type) == IF approval_type = "compliance" THEN BOOLEAN ELSE {TRUE}

Init ==
    /\ data \in Worlds
    /\ policy \in Policies
    /\ stored = FALSE
    /\ subject_email = <<>>
    /\ request_types = <<>>
    /\ artifacts = <<>>
    /\ pii_findings = <<>>
    /\ redaction_proposals = <<>>
    /\ approvals = EmptyDict
    /\ identity = EmptyDict
    /\ legal = EmptyDict
    /\ audit_log = <<>>
    /\ disclosures = EmptyDict
    /\ delivery = EmptyDict
    /\ erasure = EmptyDict
    /\ clarifications = <<>>
    /\ package = EmptyDict
    /\ last = "init"
    /\ ret = EmptyDict
    /\ calls = 0

\* a request is submitted
NewDsar ==
    \E subject \in SubjectEmails, rt \in RequestTypes, up \in Uploads, llm_ok \in BOOLEAN :
        new_dsar(subject, rt, up, llm_ok)

Approve ==
    /\ last \notin {"init", "given"}
    /\ calls < MaxCalls
    /\ \E decision \in Decisions, justification \in Justifications,
          approval_type \in ApprovalTypes :
         \E selected \in FormSelections(approval_type),
            zip_ok \in ZipOutcomes(approval_type) :
           approve(decision, justification, approval_type, selected, zip_ok)

ToggleLegalHold ==
    \E value \in BOOLEAN :
        /\ last \notin {"init", "given"}
        /\ calls < MaxCalls
        /\ toggle_legal_hold(value)

Next == NewDsar \/ Approve \/ ToggleLegalHold

Spec == Init /\ [][Next]_vars

-----------------------------------------------------------------------------
(* The step functions and guardrails called directly.  A run record is given *)
(* (the record new_dsar builds for a verified subject, with the fields the   *)
(* guards read varied), and one function or handler is applied to it.        *)

Str_alice_png == <<"A","l","i","c","e",".","p","n","g">>

\* the record of a verified request in world d under policy pol
GivenRun(d, pol, rt) ==
    new_dsar_steps(IF d = DataNone THEN Str_alice_email ELSE Str_al_email_raw, rt,
                   [kind |-> "file", filename |-> Str_alice_png, size |-> 1], pol, d)

\* disclosures with some sections absent
DisclosureCases(b) ==
    LET req == b.policy.require_sections
    IN { b.disclosures,
         [k \in (DOMAIN b.disclosures) \ {req[i] : i \in {j \in 1..Len(req) : j = 1}}
            |-> b.disclosures[k]],
         EmptyDict }

ComplianceCases ==
    { EmptyDict,
      [compliance |-> [decision |-> "approved", justification |-> ""]],
      [compliance |-> [decision |-> "approved", justification |-> "business need"]],
      [compliance |-> [decision |-> "rejected", justification |-> ""]],
      [compliance |-> [decision |-> "pending", justification |-> "business need"]] }

HoldCases == {EmptyDict, [hold |-> TRUE], [hold |-> FALSE]}

\* legal dicts as evaluate_legal_basis and toggle_legal_hold can leave them
LegalCases ==
    HoldCases \cup
    { [hold |-> h, retain_financial_records |-> rf, retain_active_service |-> ra,
       allow_erasure |-> ae] :
         h \in BOOLEAN, rf \in BOOLEAN, ra \in BOOLEAN, ae \in BOOLEAN }

LegalApprovalCases ==
    { EmptyDict,
      [legal |-> [decision |-> "approved", justification |-> ""]],
      [legal |-> [decision |-> "rejected", justification |-> ""]] }

IdentityCases ==
    { EmptyDict,
      [precomputed_confidence |-> CONFIDENCE_OTHER],
      [upload |-> EmptyDict, precomputed_confidence |-> CONFIDENCE_NONE,
       confidence |-> CONFIDENCE_NONE, status |-> "unverified"] }

\* the variations of the given record: of what the finalize guard reads, of what
\* the erasure guard reads, of the identity
GivenCases(b) ==
    { [b EXCEPT !.legal = h, !.disclosures = dc,
                !.approvals = IF c = EmptyDict THEN c ELSE Put(c, "selected_proposals", sel)] :
        h \in HoldCases, dc \in DisclosureCases(b), c \in ComplianceCases,
        sel \in SelectionsOf(b.redaction_proposals, b.policy) }
    \cup { [b EXCEPT !.legal = lg, !.approvals = la] :
             lg \in LegalCases, la \in LegalApprovalCases }
    \cup { [b EXCEPT !.identity = ic] : ic \in IdentityCases }

UnitInit ==
    \E d \in Worlds, pol \in Policies, rt \in RequestTypes :
        \E g \in GivenCases(GivenRun(d, pol, rt)) :
            /\ data = d
            /\ stored = TRUE
            /\ subject_email = g.subject_email
            /\ request_types = g.request_types
            /\ artifacts = g.artifacts
            /\ pii_findings = g.pii_findings
            /\ redaction_proposals = g.redaction_proposals
            /\ approvals = g.approvals
            /\ policy = g.policy
            /\ identity = g.identity
            /\ legal = g.legal
            /\ audit_log = g.audit_log
            /\ disclosures = g.disclosures
            /\ delivery = g.delivery
            /\ erasure = g.erasure
            /\ clarifications = <<>>
            /\ package = EmptyDict
            /\ last = "given"
            /\ ret = EmptyDict
            /\ calls = 0

\* a step function of a fresh plan object on the given record
CallStep(name, s) ==
    /\ last = "given"
    /\ Commit(s, s.ret)
    /\ last' = name
    /\ UNCHANGED <<data, stored, calls>>

\* a guardrail evaluated on the given record
CallGuard(name, decision) ==
    /\ last = "given"
    /\ ret' = decision
    /\ last' = name
    /\ UNCHANGED <<data, stored, subject_email, request_types, artifacts, pii_findings,
                   redaction_proposals, approvals, policy, identity, legal, audit_log,
                   disclosures, delivery, erasure, clarifications, package, calls>>

Call_pre_step_guard ==
    \E step \in {"discover_sources", "collect_artifacts", "detect_pii"} :
        CallGuard("pre_step_guard", pre_step_guard(Run, step))

Call_pre_finalize_guard == CallGuard("pre_finalize_guard", pre_finalize_guard(Run))

Call_pre_erasure_guard == CallGuard("pre_erasure_guard", pre_erasure_guard(Run))

Call_verify_identity == CallStep("verify_identity", verify_identity(Run))

Call_discover_sources == CallStep("discover_sources", discover_sources(Run, data))

Call_collect_artifacts == CallStep("collect_artifacts", collect_artifacts(Run, data))

Call_detect_pii == CallStep("detect_pii", detect_pii(Run, data))

Call_apply_minimization == CallStep("apply_minimization", apply_minimization(Run))

Call_assemble_disclosure == CallStep("assemble_disclosure", assemble_disclosure(Run))

Call_request_compliance_approval ==
    CallStep("request_compliance_approval", request_compliance_approval(Run))

Call_evaluate_legal_basis ==
    CallStep("evaluate_legal_basis", evaluate_legal_basis(Run, data))

Call_request_legal_approval ==
    CallStep("request_legal_approval", request_legal_approval(Run))

Call_execute_erasure == CallStep("execute_erasure", execute_erasure(Run))

Call_confirm_completion == CallStep("confirm_completion", confirm_completion(Run))

Call_finalize_delivery ==
    \E zip_ok \in BOOLEAN : CallStep("finalize_delivery", finalize_delivery(Run, zip_ok))

UnitApprove ==
    /\ last = "given"
    /\ \E decision \in Decisions, justification \in Justifications,
          approval_type \in ApprovalTypes :
         \E selected \in FormSelections(approval_type),
            zip_ok \in ZipOutcomes(approval_type) :
           approve(decision, justification, approval_type, selected, zip_ok)

UnitToggleLegalHold ==
    \E value \in BOOLEAN :
        /\ last = "given"
        /\ toggle_legal_hold(value)

UnitNext ==
    \/ Call_pre_step_guard
    \/ Call_pre_finalize_guard
    \/ Call_pre_erasure_guard
    \/ Call_verify_identity
    \/ Call_discover_sources
    \/ Call_collect_artifacts
    \/ Call_detect_pii
    \/ Call_apply_minimization
    \/ Call_assemble_disclosure
    \/ Call_request_compliance_approval
    \/ Call_finalize_delivery
    \/ Call_evaluate_legal_basis
    \/ Call_request_legal_approval
    \/ Call_execute_erasure
    \/ Call_confirm_completion
    \/ UnitApprove
    \/ UnitToggleLegalHold

UnitSpec == UnitInit /\ [][UnitNext]_vars

-----------------------------------------------------------------------------
(* evaluate_legal_basis on bounded transaction histories and thresholds *)

MaxTxns == 2

Str_book == <<"B","o","o","k">>
Str_Subscription == <<"S","u","b","s","c","r","i","p","t","i","o","n">>

\* data/transaction_history.json entries: dates with an offset 1 day ahead, 5
\* and 40 days back, a date without offset 5 days back, a date fromisoformat
\* rejects, a date that is not a string
TxnCases ==
    { [kind |-> "aware", delta_days |-> dd, product |-> p] :
        dd \in {-1, 5, 40}, p \in {Str_book, Str_Subscription} }
    \cup { [kind |-> "naive", delta_days |-> 5, product |-> p] :
             p \in {Str_book, Str_Subscription} }
    \cup { [kind |-> "unparseable", delta_days |-> 0, product |-> Str_book],
           [kind |-> "nonstring", delta_days |-> 0, product |-> Str_book] }

TxnHistories == UNION { [1..n -> TxnCases] : n \in 0..MaxTxns }

\* retention_policies of policy.yaml
RetentionDays == {0, 30}

RetentionPolicies ==
    { [PolicyEmpty EXCEPT !.financial_transaction_days = f, !.active_service_days = v] :
        f \in RetentionDays, v \in RetentionDays }

LegalInit ==
    \E h \in TxnHistories, pol \in RetentionPolicies, lg \in HoldCases :
        \E g \in {[NewRun(Str_alice_email, "erasure", pol) EXCEPT !.legal = lg]} :
            /\ data = [transaction_history |-> h]
            /\ stored = TRUE
            /\ subject_email = g.subject_email
            /\ request_types = g.request_types
            /\ artifacts = g.artifacts
            /\ pii_findings = g.pii_findings
            /\ redaction_proposals = g.redaction_proposals
            /\ approvals = g.approvals
            /\ policy = g.policy
            /\ identity = g.identity
            /\ legal = g.legal
            /\ audit_log = g.audit_log
            /\ disclosures = g.disclosures
            /\ delivery = g.delivery
            /\ erasure = g.erasure
            /\ clarifications = <<>>
            /\ package = EmptyDict
            /\ last = "given"
            /\ ret = EmptyDict
            /\ calls = 0

\* the legal approval of the erasure request
LegalApprove ==
    \E decision \in Decisions :
        /\ last = "given"
        /\ approve(decision, "", "legal", {}, TRUE)

LegalNext == Call_evaluate_legal_basis \/ LegalApprove

LegalSpec == LegalInit /\ [][LegalNext]_vars

-----------------------------------------------------------------------------
(* mask_value on bounded values *)

MaxMaskLen == 5

\* the characters of the values: letters, the separator, a digit
MaskChars == {"a", "b", "@", "7"}

MaskValues == UNION { [1..n -> MaskChars] : n \in 0..MaxMaskLen }

\* the pii types detect produces, and one it does not
MaskTypes == {"email", "phone", "address", "name"}

\* the arguments of one mask_value call
MaskInit ==
    \E t \in MaskTypes, v \in MaskValues :
        \E g \in {NewRun(<<>>, "access", PolicyEmpty)} :
            /\ data = EmptyDict
            /\ stored = FALSE
            /\ subject_email = g.subject_email
            /\ request_types = g.request_types
            /\ artifacts = g.artifacts
            /\ pii_findings = g.pii_findings
            /\ redaction_proposals = g.redaction_proposals
            /\ approvals = g.approvals
            /\ policy = g.policy
            /\ identity = g.identity
            /\ legal = g.legal
            /\ audit_log = g.audit_log
            /\ disclosures = g.disclosures
            /\ delivery = g.delivery
            /\ erasure = g.erasure
            /\ clarifications = <<>>
            /\ package = EmptyDict
            /\ last = "given"
            /\ ret = [pii_type |-> t, value |-> v]
            /\ calls = 0

Call_mask_value ==
    /\ last = "given"
    /\ ret' = [pii_type |-> ret.pii_type, value |-> ret.value,
               masked |-> mask_value(ret.pii_type, ret.value)]
    /\ last' = "mask_value"
    /\ UNCHANGED <<data, stored, subject_email, request_types, artifacts, pii_findings,
                   redaction_proposals, approvals, policy, identity, legal, audit_log,
                   disclosures, delivery, erasure, clarifications, package, calls>>

MaskNext == Call_mask_value

MaskSpec == MaskInit /\ [][MaskNext]_vars

-----------------------------------------------------------------------------
(* pre_finalize_guard on a run whose export holds two messages under one id *)

\* An export whose two messages carry the same id: both artifacts are
\* "gmail_7", the email of the first and the phone of the second lie at the
\* same offsets.  The profile has an id only.
DataShared ==
    [ gmail_export |->
        << [valid |-> TRUE, id |-> <<"7">>, subject |-> <<"H","i">>,
            body |-> <<"b","o","b","@","e","x",".","i","o">>],
           [valid |-> TRUE, id |-> <<"7">>, subject |-> <<"H","i">>,
            body |-> <<"5","5","5","-","0","1","2","3","4">>] >>,
      crm_profile |-> [ id |-> <<"c","9">> ] ]

SharedIdInit ==
    \E pol \in Policies, rt \in RequestTypes :
        \E g \in GivenCases(GivenRun(DataShared, pol, rt)) :
            /\ data = DataShared
            /\ stored = TRUE
            /\ subject_email = g.subject_email
            /\ request_types = g.request_types
            /\ artifacts = g.artifacts
            /\ pii_findings = g.pii_findings
            /\ redaction_proposals = g.redaction_proposals
            /\ approvals = g.approvals
            /\ policy = g.policy
            /\ identity = g.identity
            /\ legal = g.legal
            /\ audit_log = g.audit_log
            /\ disclosures = g.disclosures
            /\ delivery = g.delivery
            /\ erasure = g.erasure
            /\ clarifications = <<>>
            /\ package = EmptyDict
            /\ last = "given"
            /\ ret = EmptyDict
            /\ calls = 0

SharedIdNext == Call_pre_finalize_guard \/ UnitApprove

SharedIdSpec == SharedIdInit /\ [][SharedIdNext]_vars

-----------------------------------------------------------------------------
(* finalize_delivery on a run whose proposals carry arbitrary offsets *)

MaxProps == 2

Str_note == <<"n","o","t","e">>

\* the artifact of the run: "call 555-010-1234"
RedactArtifact ==
    [ source |-> "files", id |-> Str_note, type |-> "file",
      content |-> <<"c","a","l","l"," ">> \o Str_al_phone ]

\* the offsets a proposal may carry: the word at [0, 4), the phone at [5, 17),
\* and offsets no text of the run admits (end before start, negative start,
\* end past the text)
SpanCases ==
    { [pii_type |-> "name", value |-> <<"c","a","l","l">>, start |-> 0, end |-> 4],
      [pii_type |-> "phone", value |-> Str_al_phone, start |-> 5, end |-> 17],
      [pii_type |-> "phone", value |-> Str_al_phone, start |-> 6, end |-> 3],
      [pii_type |-> "phone", value |-> Str_al_phone, start |-> -1, end |-> 2],
      [pii_type |-> "phone", value |-> Str_al_phone, start |-> 5, end |-> 99] }

\* redaction_proposals of up to MaxProps entries, ids stamped in order
ProposalLists ==
    { [ i \in 1..Len(q) |->
          [ id |-> <<"p">> \o IntToStr(i - 1), artifact_id |-> Str_note,
            pii_type |-> q[i].pii_type, value |-> q[i].value,
            masked_preview |-> mask_value(q[i].pii_type, q[i].value),
            start |-> q[i].start, end |-> q[i].end,
            action |-> "mask", third_party |-> FALSE ] ] :
        q \in UNION { [1..n -> SpanCases] : n \in 0..MaxProps } }

RedactInit ==
    \E props \in ProposalLists, decision \in Decisions :
        \E sel \in SUBSET {props[i].id : i \in 1..Len(props)} :
            \E g \in {[NewRun(Str_alice_email, "access", PolicyEmpty) EXCEPT
                         !.artifacts = <<RedactArtifact>>,
                         !.redaction_proposals = props,
                         !.approvals = [compliance |-> [decision |-> decision,
                                                        justification |-> ""],
                                        selected_proposals |-> sel]]} :
                /\ data = EmptyDict
                /\ stored = TRUE
                /\ subject_email = g.subject_email
                /\ request_types = g.request_types
                /\ artifacts = g.artifacts
                /\ pii_findings = g.pii_findings
                /\ redaction_proposals = g.redaction_proposals
                /\ approvals = g.approvals
                /\ policy = g.policy
                /\ identity = g.identity
                /\ legal = g.legal
                /\ audit_log = g.audit_log
                /\ disclosures = g.disclosures
                /\ delivery = g.delivery
                /\ erasure = g.erasure
                /\ clarifications = <<>>
                /\ package = EmptyDict
                /\ last = "given"
                /\ ret = EmptyDict
                /\ calls = 0

RedactNext == Call_finalize_delivery

RedactSpec == RedactInit /\ [][RedactNext]_vars

-----------------------------------------------------------------------------
(* Properties *)

ComplianceDecision(ap) == Get(Get(ap, "compliance", EmptyDict), "decision", "None")
ComplianceJustification(ap) == Get(Get(ap, "compliance", EmptyDict), "justification", "")
LegalDecision(ap) == Get(Get(ap, "legal", EmptyDict), "decision", "None")
HoldSet(lg) == Has(lg, "hold") /\ lg.hold = TRUE

\* audit entries of a completed finalize_delivery / execute_erasure
DeliveredCount(lg) ==
    Cardinality({i \in 1..Len(lg) : lg[i].step = "finalize_delivery" /\ Has(lg[i], "delivered")})
ErasedCount(lg) ==
    Cardinality({i \in 1..Len(lg) : lg[i].step = "execute_erasure" /\ ~Has(lg[i], "blocked")})

\* the required sections with no entry in disclosures, in policy order
MissingSections(pol, disc) == SelectSeq(pol.require_sections, LAMBDA k : k \notin DOMAIN disc)

\* the findings of a required type with no selected proposal at the same
\* (artifact_id, start, end)
UnmatchedFindings(pol, findings, props, ap) ==
    LET sel == Get(ap, "selected_proposals", {})
    IN { i \in 1..Len(findings) :
           /\ findings[i].pii_type \in pol.required_types
           /\ ~\E j \in 1..Len(props) :
                 /\ props[j].id \in sel
                 /\ props[j].artifact_id = findings[i].artifact_id
                 /\ props[j].start = findings[i].start
                 /\ props[j].end = findings[i].end }

OverrideApplies(pol, ap) ==
    pol.allow_override_with_justification /\ ComplianceJustification(ap) # ""

\* C1: finalize_delivery called while approvals.compliance.decision is not
\* "approved" (absent, pending, rejected) returns success = false with an error
\* message, leaves delivery as it was, writes no package (applies no redaction)
\* and leaves the artifacts as they were.
C1_FinalizeDeniedUnlessApproved ==
    [][ (last' = "finalize_delivery" /\ ComplianceDecision(approvals) # "approved")
        => /\ Has(ret', "success") /\ ret'.success = FALSE
           /\ ret'.error # "None"
           /\ delivery' = delivery
           /\ package' = package
           /\ artifacts' = artifacts ]_vars

C1_Witness ==
    /\ last = "finalize_delivery"
    /\ ComplianceDecision(approvals) = "rejected"
    /\ Has(ret, "success") /\ ret.success = FALSE
    /\ ~Has(delivery, "path")

\* C2: over every sequence of new_dsar, approve and toggle_legal_hold calls, a
\* step that sets delivery.path (a delivered finalize_delivery entry is logged,
\* the delivery or the package changes) is a step at whose end the compliance
\* decision is "approved", no legal hold is set, every required disclosure
\* section is present, and the required redactions are satisfied or overridden.
C2_DeliveryOnlyWhenApprovedAndAllowed ==
    [][ ( \/ DeliveredCount(audit_log') > DeliveredCount(audit_log)
          \/ delivery' # delivery
          \/ package' # package )
        => /\ ComplianceDecision(approvals') = "approved"
           /\ ~HoldSet(legal')
           /\ MissingSections(policy', disclosures') = <<>>
           /\ \/ UnmatchedFindings(policy', pii_findings', redaction_proposals', approvals') = {}
              \/ OverrideApplies(policy', approvals') ]_vars

C2_Witness ==
    /\ last = "approve"
    /\ Has(delivery, "path")
    /\ policy.required_types # {}
    /\ policy.require_sections # <<>>
    /\ DeliveredCount(audit_log) = 1

\* C3: over every sequence of external calls, a step in which execute_erasure
\* runs (erasure.deleted is written, an execute_erasure entry is logged) is a
\* step at whose end approvals.legal.decision is "approved", legal.hold is not
\* set and legal.allow_erasure is not false, with no financial-retention or
\* active-service block.
C3_ErasureOnlyWhenApprovedAndUnblocked ==
    [][ (ErasedCount(audit_log') > ErasedCount(audit_log) \/ erasure' # erasure)
        => /\ LegalDecision(approvals') = "approved"
           /\ ~HoldSet(legal')
           /\ Get(legal', "allow_erasure", TRUE) # FALSE
           /\ ~Get(legal', "retain_financial_records", FALSE)
           /\ ~Get(legal', "retain_active_service", FALSE) ]_vars

C3_Witness ==
    /\ last = "approve"
    /\ Has(erasure, "deleted")
    /\ Len(erasure.deleted) > 0
    /\ ErasedCount(audit_log) = 1

\* C4: collection never runs for an unverified run: while identity.status is
\* not "verified", pre_step_guard denies discover_sources and collect_artifacts
\* with reason "Identity not verified"; and in every reachable state a
\* discover_sources or collect_artifacts audit entry, or a non-empty artifacts
\* list, implies identity.status = "verified".
C4_CollectionOnlyWhenVerified ==
    /\ Get(identity, "status", "None") # "verified"
       => \A step \in {"discover_sources", "collect_artifacts"} :
             pre_step_guard(Run, step) = [allow |-> FALSE, reason |-> <<"Identity not verified">>]
    /\ ( \/ \E i \in 1..Len(audit_log) :
               audit_log[i].step \in {"discover_sources", "collect_artifacts"}
         \/ artifacts # <<>> )
       => Get(identity, "status", "None") = "verified"

C4_Witness ==
    /\ last = "approve"
    /\ stored
    /\ Get(identity, "status", "None") = "unverified"
    /\ calls >= 1
    /\ artifacts = <<>>

\* C5 (as stated): after verify_identity, identity.status = "verified" iff
\* identity.confidence >= the policy's min_confidence_for_auto_approval, 0.85
\* when that key is absent; the confidence is the precomputed one, 0.10 when
\* there is none; an unverified outcome records exactly one
\* IdentityVerificationClarification and a verified one records none.
C5_AsStated ==
    [][ last' = "verify_identity"
        => LET th == Get(policy.identity, "min_confidence_for_auto_approval", 85)
           IN identity'.status = "verified" <=> identity'.confidence >= th ]_vars

\* C5 (amended): the same with the threshold the policy's
\* min_confidence_for_auto_approval, else its min_confidence, else 0.85.
C5_VerifiedIffConfidenceAtLeastThreshold ==
    [][ last' = "verify_identity"
        => LET th == IF Has(policy.identity, "min_confidence_for_auto_approval")
                     THEN policy.identity.min_confidence_for_auto_approval
                     ELSE IF Has(policy.identity, "min_confidence")
                     THEN policy.identity.min_confidence
                     ELSE 85
               c == IF Has(identity, "precomputed_confidence")
                    THEN identity.precomputed_confidence ELSE 10
           IN /\ identity'.confidence = c
              /\ identity'.status \in {"verified", "unverified"}
              /\ identity'.status = "verified" <=> c >= th
              /\ identity'.status = "verified" => clarifications' = clarifications
              /\ identity'.status = "unverified"
                 => /\ Len(clarifications') = Len(clarifications) + 1
                    /\ SubSeq(clarifications', 1, Len(clarifications)) = clarifications
                    /\ clarifications'[Len(clarifications')].type
                          = "IdentityVerificationClarification" ]_vars

C5_Witness ==
    /\ last = "verify_identity"
    /\ ~Has(policy.identity, "min_confidence_for_auto_approval")
    /\ Has(policy.identity, "min_confidence")
    /\ identity.confidence = policy.identity.min_confidence
    /\ identity.status = "verified"
    /\ clarifications = <<>>

\* C6: pre_finalize_guard denies with reason "Legal hold active" whenever
\* legal.hold is true, whatever the disclosures, the selected proposals, the
\* override flag and the justification; and an approve call made while the hold
\* is set produces no delivery.
C6_LegalHoldBlocksFinalize ==
    [][ /\ (last' = "pre_finalize_guard" /\ HoldSet(legal'))
           => ret' = [allow |-> FALSE, reason |-> <<"Legal hold active">>]
        /\ (last' = "approve" /\ HoldSet(legal))
           => /\ delivery' = delivery
              /\ package' = package
              /\ DeliveredCount(audit_log') = DeliveredCount(audit_log) ]_vars

C6_Witness ==
    /\ last = "approve"
    /\ HoldSet(legal)
    /\ ComplianceDecision(approvals) = "approved"
    /\ OverrideApplies(policy, approvals)
    /\ MissingSections(policy, disclosures) = <<>>
    /\ Has(approvals, "compliance_status")
    /\ approvals.compliance_status.status = "blocked"
    /\ ~Has(delivery, "path")

\* C7: with no legal hold, pre_finalize_guard denies when a key of
\* policy.disclosure.require_sections is absent from disclosures; the reason
\* names all the missing keys in policy order; the check comes before the
\* required-redaction check (it decides whatever the redactions are).
C7_MissingDisclosuresDenied ==
    (last = "pre_finalize_guard" /\ ~HoldSet(legal)
        /\ MissingSections(policy, disclosures) # <<>>)
    => ret = [ allow |-> FALSE,
               reason |-> <<"Missing disclosures: ">> \o MissingSections(policy, disclosures) ]

C7_Witness ==
    /\ last = "pre_finalize_guard"
    /\ ~HoldSet(legal)
    /\ Len(MissingSections(policy, disclosures)) >= 2
    /\ Cardinality(UnmatchedFindings(policy, pii_findings, redaction_proposals, approvals)) > 0
    /\ ~OverrideApplies(policy, approvals)
    /\ ~ret.allow

C9_OverrideWithJustification ==
    (last = "pre_finalize_guard" /\ ~HoldSet(legal)
        /\ MissingSections(policy, disclosures) = <<>>
        /\ UnmatchedFindings(policy, pii_findings, redaction_proposals, approvals) # {})
    => (ret.allow <=> ( /\ policy.allow_override_with_justification
                        /\ ComplianceJustification(approvals) # "" ))

C9_Witness ==
    /\ last = "pre_finalize_guard"
    /\ ~HoldSet(legal)
    /\ MissingSections(policy, disclosures) = <<>>
    /\ Cardinality(UnmatchedFindings(policy, pii_findings, redaction_proposals, approvals)) >= 2
    /\ OverrideApplies(policy, approvals)
    /\ ret = [allow |-> TRUE]

\* C10: pre_erasure_guard denies with "Legal hold active" whenever legal.hold
\* is true, whatever the legal-approval decision and the retention flags.
C10_LegalHoldBlocksErasure ==
    (last = "pre_erasure_guard" /\ HoldSet(legal))
    => ret = [allow |-> FALSE, reason |-> <<"Legal hold active">>]

C10_Witness ==
    /\ last = "pre_erasure_guard"
    /\ HoldSet(legal)
    /\ LegalDecision(approvals) = "approved"
    /\ Get(legal, "allow_erasure", FALSE) = TRUE
    /\ ~ret.allow

\* C11: with no legal hold, pre_erasure_guard denies with "Legal approval
\* missing" unless approvals.legal.decision is "approved"; otherwise, when
\* legal.allow_erasure is false, it denies with the financial-retention reason if
\* retain_financial_records, else the active-service reason if
\* retain_active_service, else "Legal basis not met"; otherwise it allows.
C11_ErasureGuardReasons ==
    (last = "pre_erasure_guard" /\ ~HoldSet(legal))
    => IF LegalDecision(approvals) # "approved"
       THEN ret = [allow |-> FALSE, reason |-> <<"Legal approval missing">>]
       ELSE IF Has(legal, "allow_erasure") /\ legal.allow_erasure = FALSE
       THEN ret = [ allow |-> FALSE,
                    reason |->
                      IF legal.retain_financial_records
                      THEN <<"Data retained for financial regulations">>
                      ELSE IF legal.retain_active_service
                      THEN <<"Data retained for active service contract">>
                      ELSE <<"Legal basis not met">> ]
       ELSE ret = [allow |-> TRUE]

C11_Witness ==
    /\ last = "pre_erasure_guard"
    /\ ~HoldSet(legal)
    /\ LegalDecision(approvals) = "approved"
    /\ Has(legal, "allow_erasure") /\ legal.allow_erasure = FALSE
    /\ legal.retain_financial_records /\ legal.retain_active_service
    /\ ret = [allow |-> FALSE, reason |-> <<"Data retained for financial regulations">>]

\* the transactions whose date has an age (it parses as an ISO-8601 date)
DatedTxns(d) ==
    LET h == Get(d, "transaction_history", <<>>)
    IN { h[i] : i \in {j \in 1..Len(h) : h[j].kind \in {"aware", "naive"}} }

LastEntry(lg) == lg[Len(lg)]

\* C12 (as stated): after evaluate_legal_basis, for every transaction history
\* and thresholds, retain_financial_records is true iff
\* financial_transaction_days > 0 and some transaction's age in whole days is
\* less than it; retain_active_service is true iff some transaction whose
\* product contains "subscription" (case-insensitive) has an age less than
\* active_service_days; allow_erasure = not (hold or retain_financial_records or
\* retain_active_service); and the audited reasons are exactly the triggered
\* codes.
C12_AsStated ==
    [][ last' = "evaluate_legal_basis"
        => LET hold == HoldSet(legal)
               fin == \E t \in DatedTxns(data) :
                         /\ policy.financial_transaction_days > 0
                         /\ t.delta_days < policy.financial_transaction_days
               svc == \E t \in DatedTxns(data) :
                         /\ Contains(Lower(t.product), Str_subscription)
                         /\ t.delta_days < policy.active_service_days
               codes == (IF hold THEN {"legal_hold"} ELSE {})
                        \cup (IF fin THEN {"retain_financial_records"} ELSE {})
                        \cup (IF svc THEN {"retain_active_service"} ELSE {})
               reasons == LastEntry(audit_log').reasons
           IN /\ legal'.retain_financial_records = fin
              /\ legal'.retain_active_service = svc
              /\ legal'.allow_erasure = ~(hold \/ fin \/ svc)
              /\ {reasons[i] : i \in 1..Len(reasons)} = codes
              /\ Len(reasons) = Cardinality(codes) ]_vars

\* C12 (the failing case): a history whose only transaction is 5 days old with
\* a date that carries no offset, under financial_transaction_days = 30, is
\* evaluated to retain_financial_records = false and allow_erasure = true, and
\* the approved erasure runs.
C12_Witness ==
    /\ last = "approve"
    /\ policy.financial_transaction_days = 30
    /\ Len(data.transaction_history) = 1
    /\ data.transaction_history[1].kind = "naive"
    /\ data.transaction_history[1].delta_days < policy.financial_transaction_days
    /\ legal.retain_financial_records = FALSE
    /\ legal.allow_erasure = TRUE
    /\ Has(erasure, "deleted")

IsPrefix(a, b) == Len(a) <= Len(b) /\ SubSeq(b, 1, Len(a)) = a

\* C13: the audit log is append-only under every operation (every step
\* function, the blocked-guard records approve writes, toggle_legal_hold): in
\* every transition the previous audit_log is a prefix of the new one.
C13_AuditLogAppendOnly == [][IsPrefix(audit_log, audit_log')]_vars

C13_Witness ==
    /\ last = "approve"
    /\ Len(audit_log) >= 8
    /\ LastEntry(audit_log).step = "execute_erasure"
    /\ Has(LastEntry(audit_log), "blocked")
    /\ audit_log[1].step = "verify_identity"

StepNames ==
    { "verify_identity", "discover_sources", "collect_artifacts", "detect_pii",
      "apply_minimization", "assemble_disclosure", "request_compliance_approval",
      "finalize_delivery", "evaluate_legal_basis", "request_legal_approval",
      "execute_erasure", "confirm_completion" }

\* C14 (as stated): every invocation of a step function, whether it succeeds
\* or fails, increases the audit log length by exactly one.
C14_AsStated ==
    [][ last' \in StepNames => Len(audit_log') = Len(audit_log) + 1 ]_vars

\* C14 (the failing case): finalize_delivery called on a run whose compliance
\* decision is not "approved" has returned "Not approved" and the audit log
\* holds no finalize_delivery entry.
C14_Witness ==
    /\ last = "finalize_delivery"
    /\ ComplianceDecision(approvals) = "pending"
    /\ Has(ret, "success") /\ ret.success = FALSE
    /\ \A i \in 1..Len(audit_log) : audit_log[i].step # "finalize_delivery"

\* C15 (as stated): over any sequence of external calls, finalize_delivery
\* completes successfully at most once and execute_erasure runs at most once.
C15_AsStated ==
    /\ DeliveredCount(audit_log) <= 1
    /\ ErasedCount(audit_log) <= 1

\* C15 (the failing case): two approve calls with an approved compliance
\* decision have each completed finalize_delivery.
C15_Witness ==
    /\ last = "approve"
    /\ calls = 2
    /\ DeliveredCount(audit_log) = 2
    /\ Has(delivery, "path")

RequestIs(rt) == \E i \in 1..Len(request_types) : request_types[i] = rt

\* finalize_delivery has succeeded (access) or confirm_completion has run (erasure)
Terminated ==
    \/ RequestIs("access") /\ DeliveredCount(audit_log) >= 1
    \/ RequestIs("erasure")
       /\ \E i \in 1..Len(audit_log) : audit_log[i].step = "confirm_completion"

\* C16 (as stated): once finalize_delivery has succeeded (access) or
\* confirm_completion has run (erasure), no later approve or toggle_legal_hold
\* call changes any field of the run record.
C16_AsStated ==
    [][ Terminated
        => UNCHANGED <<subject_email, request_types, artifacts, pii_findings,
                       redaction_proposals, approvals, policy, identity, legal,
                       audit_log, disclosures, delivery, erasure>> ]_vars

\* C16 (the failing case): a toggle_legal_hold call after the delivery of an
\* access request has set legal.hold and appended a legal_hold_set entry.
C16_Witness ==
    /\ last = "toggle_legal_hold"
    /\ RequestIs("access")
    /\ DeliveredCount(audit_log) = 1
    /\ LastEntry(audit_log).step = "legal_hold_set"
    /\ HoldSet(legal)

\* some entries of lg at increasing positions below n carry the steps of names, in order
RECURSIVE PrecededInOrder(_, _, _)
PrecededInOrder(lg, n, names) ==
    IF names = <<>> THEN TRUE
    ELSE \E j \in 1..(n - 1) :
            /\ lg[j].step = names[Len(names)]
            /\ PrecededInOrder(lg, j, SubSeq(names, 1, Len(names) - 1))

\* C17 (as stated): every finalize_delivery audit entry (delivered or blocked)
\* is preceded, in this order, by verify_identity, discover_sources,
\* collect_artifacts, detect_pii, apply_minimization, assemble_disclosure and
\* request_compliance_approval entries.
C17_AsStated ==
    \A i \in 1..Len(audit_log) :
        audit_log[i].step = "finalize_delivery"
        => PrecededInOrder(audit_log, i,
              << "verify_identity", "discover_sources", "collect_artifacts", "detect_pii",
                 "apply_minimization", "assemble_disclosure", "request_compliance_approval" >>)

\* C17 (the failing case): an approve call on a run whose identity is
\* unverified has logged a finalize_delivery entry although no collection step
\* ran.
C17_Witness ==
    /\ last = "approve"
    /\ Get(identity, "status", "None") = "unverified"
    /\ \E i \in 1..Len(audit_log) : audit_log[i].step = "finalize_delivery"
    /\ \A i \in 1..Len(audit_log) : audit_log[i].step # "discover_sources"

\* C18 (as stated): every execute_erasure entry (or its blocked record) is
\* preceded by evaluate_legal_basis and then by request_legal_approval, and
\* every confirm_completion entry is preceded by an execute_erasure that ran.
C18_AsStated ==
    \A i \in 1..Len(audit_log) :
        /\ audit_log[i].step = "execute_erasure"
           => PrecededInOrder(audit_log, i, <<"evaluate_legal_basis", "request_legal_approval">>)
        /\ audit_log[i].step = "confirm_completion"
           => \E j \in 1..(i - 1) :
                 audit_log[j].step = "execute_erasure" /\ ~Has(audit_log[j], "blocked")

\* C18 (the failing case): an approved legal decision has run execute_erasure
\* and confirm_completion and the audit log holds no request_legal_approval
\* entry.
C18_Witness ==
    /\ last = "approve"
    /\ ErasedCount(audit_log) = 1
    /\ LastEntry(audit_log).step = "confirm_completion"
    /\ \A i \in 1..Len(audit_log) : audit_log[i].step # "request_legal_approval"
    /\ clarifications = <<>>

\* C19: request_compliance_approval and request_legal_approval each return a
\* Clarification whose decision is "pending", record exactly one clarification
\* (the one returned), and leave approvals, delivery and erasure unchanged: the
\* step itself decides nothing, delivers nothing and erases nothing.
C19_ClarificationsPauseWithoutDeciding ==
    [][ last' \in {"request_compliance_approval", "request_legal_approval"}
        => /\ ret'.type = IF last' = "request_compliance_approval"
                          THEN "ComplianceApprovalClarification"
                          ELSE "LegalApprovalClarification"
           /\ ret'.payload.decision = "pending"
           /\ clarifications' = Append(clarifications, ret')
           /\ approvals' = approvals
           /\ delivery' = delivery
           /\ erasure' = erasure
           /\ package' = package ]_vars

C19_Witness ==
    /\ last = "request_compliance_approval"
    /\ Len(clarifications) = 1
    /\ clarifications[1].type = "ComplianceApprovalClarification"
    /\ clarifications[1].payload.decision = "pending"
    /\ Len(clarifications[1].payload.redaction_proposals) > 0
    /\ ComplianceDecision(approvals) = "None"
    /\ ~Has(delivery, "path")

\* C20 (as stated): a run paused on an IdentityVerificationClarification stays
\* unverified until a decision is recorded, and it is resumable: once an approve
\* call has recorded an approved decision for that run, the workflow has
\* proceeded to discover_sources and collection.
C20_AsStated ==
    [][ (stored /\ Get(identity, "status", "None") = "unverified" /\ last' = "approve")
        => IF \/ ComplianceDecision(approvals') = "approved"
              \/ LegalDecision(approvals') = "approved"
           THEN /\ \E i \in 1..Len(audit_log') : audit_log'[i].step = "discover_sources"
                /\ \E i \in 1..Len(audit_log') : audit_log'[i].step = "collect_artifacts"
           ELSE Get(identity', "status", "None") = "unverified" ]_vars

\* C20 (the failing case): approve has recorded an approved decision, under
\* approval_type "identity", for a run stopped at identity verification; the run
\* is still unverified and its audit log holds the verify_identity entry only.
C20_Witness ==
    /\ last = "approve"
    /\ stored
    /\ Get(identity, "status", "None") = "unverified"
    /\ ComplianceDecision(approvals) = "approved"
    /\ ~Has(approvals, "compliance_status")
    /\ Len(audit_log) = 1
    /\ audit_log[1].step = "verify_identity"
    /\ artifacts = <<>>

\* a finalize_delivery that the guardrail blocked is on the audit log
FinalizeBlocked(lg) ==
    \E i \in 1..Len(lg) : lg[i].step = "finalize_delivery" /\ Has(lg[i], "blocked")

ProposalsOn(props, sel, aid) ==
    { props[j] : j \in {k \in 1..Len(props) :
                          props[k].id \in sel /\ props[k].artifact_id = aid} }

\* text from offset pos on, with the [start, end) span of every proposal of ps
\* replaced by its masked value and every other character kept (spans
\* disjoint; an empty span is an insertion)
RECURSIVE ReplaceSpans(_, _, _)
ReplaceSpans(text, ps, pos) ==
    LET here == {p \in ps : p.start = pos}
    IN IF here # {}
       THEN LET p == CHOOSE q \in here : \A r \in here : q.end <= r.end
            IN mask_value(p.pii_type, p.value) \o ReplaceSpans(text, ps \ {p}, p.end)
       ELSE IF pos >= Len(text) THEN <<>>
       ELSE <<text[pos + 1]>> \o ReplaceSpans(text, ps, pos + 1)

\* C22: after a successful finalize_delivery, delivery.path is set and the
\* delivered content of every artifact is its original content with the span
\* of each proposal in approvals.selected_proposals on that artifact replaced
\* by the proposal's masked value, every other character unchanged, for any
\* selection (the empty one included).
C22_AsStated ==
    [][ (last' = "finalize_delivery" /\ Has(ret', "success") /\ ret'.success)
        => /\ Has(delivery', "path")
           /\ Has(package', "redacted_artifacts")
           /\ \A i \in 1..Len(artifacts) :
                /\ artifacts[i].id \in DOMAIN package'.redacted_artifacts
                /\ package'.redacted_artifacts[artifacts[i].id]
                     = ReplaceSpans(artifacts[i].content,
                                    ProposalsOn(redaction_proposals,
                                                Get(approvals, "selected_proposals", {}),
                                                artifacts[i].id), 0) ]_vars

\* a delivery made with an empty selection although proposals exist
C22_Witness ==
    /\ last = "finalize_delivery"
    /\ Has(delivery, "path")
    /\ Get(approvals, "selected_proposals", {}) = {}
    /\ Len(redaction_proposals) > 0
    /\ \E i \in 1..Len(artifacts) :
          package.redacted_artifacts[artifacts[i].id] # artifacts[i].content

\* C23: collected artifact content is immutable.  On a run whose artifacts
\* were collected, every step function other than collect_artifacts itself
\* (detect_pii, apply_minimization, finalize_delivery, execute_erasure, ...)
\* and the handlers approve and toggle_legal_hold leave the artifacts sequence
\* and every artifact's content as they were; the redacted text goes to the
\* delivered package only.
C23_ArtifactsImmutable ==
    [][ last' # "collect_artifacts" => artifacts' = artifacts ]_vars

\* a delivery whose package carries a redacted text while the artifact keeps
\* its original content
C23_Witness ==
    /\ last \in {"finalize_delivery", "approve"}
    /\ Has(delivery, "path")
    /\ Has(package, "redacted_artifacts")
    /\ \E i \in 1..Len(artifacts) :
          /\ artifacts[i].id \in DOMAIN package.redacted_artifacts
          /\ package.redacted_artifacts[artifacts[i].id] # artifacts[i].content

\* C24: steps never raise.  Every finalize_delivery call, the one in which the
\* archive writer fails included, returns a result carrying success and, when
\* success is false, a message; approvals are as before the call and the audit
\* log keeps the entries it had.
C24_AsStated ==
    [][ last' = "finalize_delivery"
        => /\ Has(ret', "success")
           /\ ~Has(ret', "raised")
           /\ (~ret'.success => ret'.error # "None")
           /\ approvals' = approvals
           /\ IsPrefix(audit_log, audit_log') ]_vars

\* an approved finalize_delivery left by the exception of the archive writer
C24_Witness ==
    /\ last = "finalize_delivery"
    /\ Has(ret, "raised")
    /\ ~Has(ret, "success")
    /\ ComplianceDecision(approvals) = "approved"
    /\ ~Has(delivery, "path")

\* the number of artifacts attributed to a source
SourceCount(arts, source) == Cardinality({i \in 1..Len(arts) : arts[i].source = source})

\* the number of entries a source provides: messages that are JSON objects,
\* the profile, files that can be read
ProvidedCount(d, source) ==
    IF source = "gmail_export"
    THEN LET ms == Get(d, "gmail_export", <<>>)
         IN Cardinality({i \in 1..Len(ms) : ms[i].valid})
    ELSE IF source = "crm_profile"
    THEN IF Has(d, "crm_profile") THEN 1 ELSE 0
    ELSE IF source = "files"
    THEN LET fs == Get(d, "files", <<>>)
         IN Cardinality({i \in 1..Len(fs) : fs[i].readable})
    ELSE 0

\* C25: a failing artifact source only degrades that source.  collect_artifacts
\* returns success, a source contributes no more artifacts than it provides
\* (none when its read fails: nothing is substituted for it), and every
\* readable file is collected whatever the other sources do.
C25_AsStated ==
    [][ last' = "collect_artifacts"
        => /\ ret'.success
           /\ \A source \in {"gmail_export", "crm_profile", "files"} :
                SourceCount(artifacts', source) <= ProvidedCount(data, source)
           /\ SourceCount(artifacts', "files") = ProvidedCount(data, "files") ]_vars

\* the export and the profile cannot be read and their inline samples are
\* among the collected artifacts
C25_Witness ==
    /\ last = "collect_artifacts"
    /\ ~Has(data, "gmail_export")
    /\ ~Has(data, "crm_profile")
    /\ \E i \in 1..Len(artifacts) :
          artifacts[i].source = "gmail_export" /\ artifacts[i].content = Str_sample_gmail
    /\ \E i \in 1..Len(artifacts) :
          artifacts[i].source = "crm_profile" /\ artifacts[i].content = Str_sample_crm

\* C26: failures of the narrative summarizer or of the plan-tracing mirror
\* never block or alter the core workflow.  Whether or not the summarizer can
\* be built and run, new_dsar answers with the redirect, the run is stored,
\* and a verified run has its compliance clarification raised.
C26_AsStated ==
    last = "new_dsar"
    => /\ stored
       /\ ret.status = 303
       /\ (Get(identity, "status", "None") = "verified" => Len(clarifications) > 0)

\* a verified run, collected and assembled, that new_dsar did not store
C26_Witness ==
    /\ last = "new_dsar"
    /\ ~stored
    /\ ret.status = 500
    /\ Get(identity, "status", "None") = "verified"
    /\ Len(artifacts) > 0
    /\ clarifications = <<>>

\* the subject-identifier set: the request's subject email, the profile's
\* email and phone, the identity's email and phone (emails trimmed and
\* lower-cased, phones trimmed, empty values left out)
SubjectIdentifierEmails ==
    { Lower(Strip(e)) : e \in { subject_email,
                                Get(Get(data, "crm_profile", EmptyDict), "email", <<>>),
                                Get(identity, "email", <<>>) } } \ {<<>>}

SubjectIdentifierPhones ==
    { Strip(p) : p \in { Get(Get(data, "crm_profile", EmptyDict), "phone", <<>>),
                         Get(identity, "phone", <<>>) } } \ {<<>>}

\* C27: after detect_pii, an email finding is third-party exactly when its
\* value, trimmed and lower-cased, is not in the subject-identifier set; a
\* phone finding exactly when its value is not in the set; a finding of any
\* other type is never third-party.
C27_ThirdPartyClassification ==
    last = "detect_pii"
    => \A i \in 1..Len(pii_findings) :
         LET f == pii_findings[i]
         IN IF f.pii_type = "email"
            THEN f.third_party = (Lower(Strip(f.value)) \notin SubjectIdentifierEmails)
            ELSE IF f.pii_type = "phone"
            THEN f.third_party = (f.value \notin SubjectIdentifierPhones)
            ELSE f.third_party = FALSE

\* findings of the subject's own email and phone, of another person's email,
\* and of an address, classified in one call
C27_Witness ==
    /\ last = "detect_pii"
    /\ \E i \in 1..Len(pii_findings) :
          pii_findings[i].pii_type = "email" /\ pii_findings[i].third_party
    /\ \E i \in 1..Len(pii_findings) :
          pii_findings[i].pii_type = "email" /\ ~pii_findings[i].third_party
    /\ \E i \in 1..Len(pii_findings) :
          pii_findings[i].pii_type = "phone" /\ ~pii_findings[i].third_party
    /\ \E i \in 1..Len(pii_findings) :
          pii_findings[i].pii_type = "address" /\ ~pii_findings[i].third_party

\* the number of "@" in a value
AtCount(v) == Cardinality({i \in 1..Len(v) : v[i] = "@"})

\* the masking rule as stated
MaskedAsStated(t, v) ==
    IF t = "email"
    THEN IF AtCount(v) = 1
         THEN LET k == CHOOSE i \in 1..Len(v) : v[i] = "@"
              IN SubSeq(v, 1, IF k - 1 < 2 THEN k - 1 ELSE 2)
                 \o <<"*", "*", "*", "@">> \o SubSeq(v, k + 1, Len(v))
         ELSE <<"*", "*", "*">>
    ELSE IF t = "phone"
    THEN <<"*", "*", "*">> \o (IF Len(v) < 4 THEN v ELSE SubSeq(v, Len(v) - 3, Len(v)))
    ELSE <<"[", "R", "E", "D", "A", "C", "T", "E", "D", "]">>

\* C28: mask_value follows the masking rule for every input: an email with
\* exactly one "@" gives the first two characters of the local part, "***@"
\* and the domain; an email with any other number of "@" gives "***"; a phone
\* gives "***" and the last four characters of the value (the whole value when
\* it is shorter); any other type gives "[REDACTED]".
C28_MaskValueRule ==
    last = "mask_value" => ret.masked = MaskedAsStated(ret.pii_type, ret.value)

\* an email with a local part longer than two characters, masked
C28_Witness ==
    /\ last = "mask_value"
    /\ ret.pii_type = "email"
    /\ ret.value = <<"a", "b", "a", "@", "b">>
    /\ ret.masked = <<"a", "b", "*", "*", "*", "@", "b">>

\* the findings of a required type with no selected proposal of the finding's
\* own type at the same (artifact_id, start, end)
UnmatchedSameType(pol, findings, props, ap) ==
    LET sel == Get(ap, "selected_proposals", {})
    IN { i \in 1..Len(findings) :
           /\ findings[i].pii_type \in pol.required_types
           /\ ~\E j \in 1..Len(props) :
                 /\ props[j].id \in sel
                 /\ props[j].pii_type = findings[i].pii_type
                 /\ props[j].artifact_id = findings[i].artifact_id
                 /\ props[j].start = findings[i].start
                 /\ props[j].end = findings[i].end }

\* C29: in pre_finalize_guard a finding of a required type is matched only by
\* a selected proposal of the finding's own type at the same (artifact_id,
\* start, end).  With no hold, no missing section and no override, the guard
\* allows exactly when every required finding has such a proposal, and it
\* reports the number of those that have none.
C29_AsStated ==
    ( /\ last = "pre_finalize_guard"
      /\ ~HoldSet(legal)
      /\ MissingSections(policy, disclosures) = <<>>
      /\ ~OverrideApplies(policy, approvals) )
    => LET n == Cardinality(UnmatchedSameType(policy, pii_findings,
                                              redaction_proposals, approvals))
       IN /\ ret.allow = (n = 0)
          /\ n > 0 => ret.reason = <<"Missing required redactions: ", ToString(n)>>

\* the guard allows although a required phone finding has only an email
\* proposal selected at its key
C29_Witness ==
    /\ last = "pre_finalize_guard"
    /\ ret.allow
    /\ ~HoldSet(legal)
    /\ ~OverrideApplies(policy, approvals)
    /\ \E i \in UnmatchedSameType(policy, pii_findings, redaction_proposals, approvals) :
          /\ pii_findings[i].pii_type = "phone"
          /\ \E j \in 1..Len(redaction_proposals) :
                /\ redaction_proposals[j].id \in Get(approvals, "selected_proposals", {})
                /\ redaction_proposals[j].pii_type = "email"
                /\ redaction_proposals[j].artifact_id = pii_findings[i].artifact_id
                /\ redaction_proposals[j].start = pii_findings[i].start
                /\ redaction_proposals[j].end = pii_findings[i].end

\* a transaction whose date is not a string or does not parse
MalformedDate(t) == t.kind \in {"nonstring", "unparseable"}

\* C30: in evaluate_legal_basis a transaction with a malformed or unparseable
\* date is skipped and is not fatal.  On a history holding such a transaction
\* the step returns success and writes the legal flags; the flags are those of
\* the history with the malformed transactions taken out, and, when every
\* other date carries an offset, each flag is true exactly when some other
\* transaction, before or after the malformed one, is within its threshold.
C30_MalformedDateSkipped ==
    [][ ( /\ last' = "evaluate_legal_basis"
          /\ \E i \in 1..Len(Get(data, "transaction_history", <<>>)) :
                MalformedDate(data.transaction_history[i]) )
        => LET h == data.transaction_history
               others == SelectSeq(h, LAMBDA t : ~MalformedDate(t))
               fin_days == policy.financial_transaction_days
               svc_days == policy.active_service_days
               flags == ScanTransactions(others, fin_days, svc_days, <<FALSE, FALSE>>)
               aware == {i \in 1..Len(h) : h[i].kind = "aware"}
           IN /\ ret'.success
              /\ legal'.retain_financial_records = flags[1]
              /\ legal'.retain_active_service = flags[2]
              /\ legal'.allow_erasure = ~(HoldSet(legal) \/ flags[1] \/ flags[2])
              /\ (\A i \in 1..Len(h) : h[i].kind # "naive")
                 => /\ legal'.retain_financial_records
                        = (fin_days > 0 /\ \E i \in aware : h[i].delta_days < fin_days)
                    /\ legal'.retain_active_service
                        = (svc_days > 0
                           /\ \E i \in aware :
                                 /\ Contains(Lower(h[i].product), Str_subscription)
                                 /\ h[i].delta_days < svc_days) ]_vars

\* a history whose first date does not parse and whose second transaction is
\* recent: the second is evaluated and retains the records
C30_Witness ==
    /\ last = "evaluate_legal_basis"
    /\ Len(data.transaction_history) >= 2
    /\ data.transaction_history[1].kind = "unparseable"
    /\ data.transaction_history[2].kind = "aware"
    /\ policy.financial_transaction_days > 0
    /\ data.transaction_history[2].delta_days < policy.financial_transaction_days
    /\ ret.success
    /\ legal.retain_financial_records
    /\ ~legal.allow_erasure

\* the offsets of p are in range for a text of length n
InRange(p, n) == 0 <= p.start /\ p.start <= p.end /\ p.end <= n

\* no two proposals of ps overlap or share a start
DisjointSpans(ps) ==
    \A p \in ps, q \in ps : p # q => (p.end <= q.start /\ p.start < q.start)
                                     \/ (q.end <= p.start /\ q.start < p.start)

\* C31: in finalize_delivery an applied proposal whose offsets are out of
\* range for the text is dropped: the delivered content is the original with
\* the spans of the in-range applied proposals replaced (these being
\* disjoint), whatever out-of-range proposals were applied with them.
C31_OutOfRangeDropped ==
    [][ (last' = "finalize_delivery" /\ Has(ret', "success") /\ ret'.success)
        => \A i \in 1..Len(artifacts) :
             LET applied == { package'.applied_proposals[j] :
                                j \in {k \in 1..Len(package'.applied_proposals) :
                                         package'.applied_proposals[k].artifact_id
                                           = artifacts[i].id} }
                 inrange == {p \in applied : InRange(p, Len(artifacts[i].content))}
             IN DisjointSpans(inrange)
                => package'.redacted_artifacts[artifacts[i].id]
                     = ReplaceSpans(artifacts[i].content, inrange, 0) ]_vars

\* a delivery in which the phone proposal was applied and a selected proposal
\* reaching past the text was dropped
C31_Witness ==
    /\ last = "finalize_delivery"
    /\ Has(delivery, "path")
    /\ Len(artifacts) = 1
    /\ \E j \in 1..Len(package.applied_proposals) :
          ~InRange(package.applied_proposals[j], Len(artifacts[1].content))
    /\ \E j \in 1..Len(package.applied_proposals) :
          /\ InRange(package.applied_proposals[j], Len(artifacts[1].content))
          /\ package.applied_proposals[j].pii_type = "phone"
    /\ package.redacted_artifacts[artifacts[1].id]
         = <<"c","a","l","l"," ","*","*","*","1","2","3","4">>

\* C32: after apply_minimization, redaction_proposals is derived 1:1 from
\* pii_findings: same length; the proposal of the finding at index i (from 0)
\* has id "p<i>", so ids are unique and in input order; it copies artifact_id,
\* pii_type, value, start, end and third_party from that finding, has action
\* "mask", and its masked_preview is the masked value of (pii_type, value).
C32_ProposalsOneToOne ==
    last = "apply_minimization"
    => /\ Len(redaction_proposals) = Len(pii_findings)
       /\ \A i \in 1..Len(redaction_proposals) :
            LET p == redaction_proposals[i]
                f == pii_findings[i]
            IN /\ p.id = <<"p">> \o IntToStr(i - 1)
               /\ p.artifact_id = f.artifact_id
               /\ p.pii_type = f.pii_type
               /\ p.value = f.value
               /\ p.start = f.start
               /\ p.end = f.end
               /\ p.third_party = f.third_party
               /\ p.action = "mask"
               /\ p.masked_preview = MaskedAsStated(f.pii_type, f.value)
       /\ \A i \in 1..Len(redaction_proposals), j \in 1..Len(redaction_proposals) :
            redaction_proposals[i].id = redaction_proposals[j].id => i = j

\* proposals of a run with an email of another person, the subject's own
\* email and phone, and an address marker
C32_Witness ==
    /\ last = "apply_minimization"
    /\ Len(redaction_proposals) >= 4
    /\ redaction_proposals[1].id = <<"p", "0">>
    /\ redaction_proposals[4].id = <<"p", "3">>
    /\ \E i \in 1..Len(redaction_proposals) : redaction_proposals[i].third_party
    /\ \E i \in 1..Len(redaction_proposals) :
          /\ ~redaction_proposals[i].third_party
          /\ redaction_proposals[i].pii_type = "address"
          /\ redaction_proposals[i].masked_preview = Str_redacted

\* the section keys assemble_disclosure has a text for
RecognizedSections ==
    {"purpose_of_processing", "categories_of_data", "recipients",
     "retention_period", "rights_information"}

\* C33: after assemble_disclosure, the key set of disclosures equals the set
\* of the policy's required sections, a key that is not recognized maps to
\* the literal "Provided.", and pre_finalize_guard evaluated on the run under
\* the same policy does not deny with "Missing disclosures".
C33_DisclosuresCoverRequiredSections ==
    last = "assemble_disclosure"
    => /\ DOMAIN disclosures
            = {policy.require_sections[i] : i \in 1..Len(policy.require_sections)}
       /\ \A k \in DOMAIN disclosures :
            k \notin RecognizedSections => disclosures[k] = [text |-> "Provided."]
       /\ LET guard == pre_finalize_guard(Run)
          IN guard.allow \/ guard.reason[1] # "Missing disclosures: "

\* the sections of a policy with a section of its own, assembled
C33_Witness ==
    /\ last = "assemble_disclosure"
    /\ Len(policy.require_sections) = 3
    /\ "custom_notice" \in DOMAIN disclosures
    /\ disclosures["custom_notice"] = [text |-> "Provided."]
    /\ "purpose_of_processing" \in DOMAIN disclosures
    /\ ~HoldSet(legal)

\* the fields of the run record other than audit_log
RecordFields(s) ==
    << s.subject_email, s.request_types, s.artifacts, s.pii_findings,
       s.redaction_proposals, s.approvals, s.policy, s.identity, s.legal,
       s.disclosures, s.delivery, s.erasure >>

\* the step just called, called once more on the record it left, the
\* collaborators answering as before
CalledAgain ==
    CASE last = "verify_identity" -> verify_identity(Run)
      [] last = "discover_sources" -> discover_sources(Run, data)
      [] last = "collect_artifacts" -> collect_artifacts(Run, data)
      [] last = "detect_pii" -> detect_pii(Run, data)
      [] last = "apply_minimization" -> apply_minimization(Run)
      [] last = "assemble_disclosure" -> assemble_disclosure(Run)
      [] last = "finalize_delivery" -> finalize_delivery(Run, TRUE)
      [] last = "evaluate_legal_basis" -> evaluate_legal_basis(Run, data)
      [] last = "execute_erasure" -> execute_erasure(Run)
      [] last = "confirm_completion" -> confirm_completion(Run)

\* C34: each step is idempotent on success.  After a step returned success,
\* calling it again on the record it left, inputs unchanged, succeeds and
\* leaves every field of the run record other than audit_log as the first
\* call left it.
C34_StepsIdempotentOnSuccess ==
    ( /\ last \in { "verify_identity", "discover_sources", "collect_artifacts",
                    "detect_pii", "apply_minimization", "assemble_disclosure",
                    "finalize_delivery", "evaluate_legal_basis", "execute_erasure",
                    "confirm_completion" }
      /\ Has(ret, "success") /\ ret.success )
    => /\ RecordFields(CalledAgain) = RecordFields(Run)
       /\ CalledAgain.ret.success

\* an erasure that has run once and listed the artifacts
C34_Witness ==
    /\ last = "execute_erasure"
    /\ Has(ret, "success") /\ ret.success
    /\ Has(erasure, "deleted")
    /\ Len(erasure.deleted) = Len(artifacts)
    /\ Len(artifacts) > 1

\* approvals.compliance_status.status
ComplianceStatus(ap) == Get(Get(ap, "compliance_status", EmptyDict), "status", "None")

\* C35: the delivered status is truthful.  In every reachable state,
\* approvals.compliance_status.status = "delivered" implies that delivery.path
\* is set and the compliance decision is "approved"; a compliance submission
\* with another decision never yields the status "delivered".
C35_AsStated ==
    ComplianceStatus(approvals) = "delivered"
    => /\ Has(delivery, "path")
       /\ ComplianceDecision(approvals) = "approved"

\* a rejected compliance submission recorded as delivered, with no delivery
C35_Witness ==
    /\ last = "approve"
    /\ ComplianceStatus(approvals) = "delivered"
    /\ ComplianceDecision(approvals) = "rejected"
    /\ ~Has(delivery, "path")
    /\ DeliveredCount(audit_log) = 0

\* C36: for a run whose identity.status is not "verified", no sequence of
\* approve and toggle_legal_hold calls sets delivery.path or writes
\* erasure.deleted, under any policy.
C36_AsStated ==
    (stored /\ Get(identity, "status", "None") # "verified")
    => /\ ~Has(delivery, "path")
       /\ ~Has(erasure, "deleted")

\* an unverified run, nothing collected, delivered under a policy with no
\* required section
C36_Witness ==
    /\ last = "approve"
    /\ stored
    /\ Get(identity, "status", "None") = "unverified"
    /\ artifacts = <<>>
    /\ policy.require_sections = <<>>
    /\ Has(delivery, "path")

\* C37: only selected proposals are applied at delivery.  After a successful
\* finalize_delivery the ids of the applied proposals are exactly
\* approvals.selected_proposals, and with an empty or absent selection the
\* delivered content of every artifact is its original content.
C37_AsStated ==
    [][ (last' = "finalize_delivery" /\ Has(ret', "success") /\ ret'.success)
        => LET sel == Get(approvals, "selected_proposals", {})
               applied == package'.applied_proposals
           IN /\ {applied[j].id : j \in 1..Len(applied)} = sel
              /\ sel = {}
                 => \A i \in 1..Len(artifacts) :
                      package'.redacted_artifacts[artifacts[i].id]
                        = artifacts[i].content ]_vars

\* a delivery allowed through the justification override with nothing
\* selected, in which every proposal was applied
C37_Witness ==
    /\ last = "finalize_delivery"
    /\ Has(delivery, "path")
    /\ Get(approvals, "selected_proposals", {}) = {}
    /\ OverrideApplies(policy, approvals)
    /\ Len(redaction_proposals) > 0
    /\ Len(package.applied_proposals) = Len(redaction_proposals)

\* the audit entries of a step, blocked ones included
StepCount(lg, step) == Cardinality({i \in 1..Len(lg) : lg[i].step = step})

\* C38: erasure is scoped to erasure requests and legal approvals.  In any
\* approve call on a stored run: evaluate_legal_basis, execute_erasure and
\* confirm_completion run, and legal and erasure change, only when the run's
\* request_types contains "erasure" and approval_type is "legal"; a call of
\* another approval type leaves legal and erasure as they were; and a call of
\* type "legal" runs no finalize_delivery and leaves delivery and the package
\* as they were.
C38_ErasureScopedToLegalApprovals ==
    [][ \A decision \in Decisions, justification \in Justifications,
           approval_type \in ApprovalTypes :
          \A selected \in FormSelections(approval_type),
             zip_ok \in ZipOutcomes(approval_type) :
            ( /\ last' = "approve"
              /\ stored
              /\ Get(approvals', IF approval_type = "legal" THEN "legal" ELSE "compliance",
                     EmptyDict)
                   = [decision |-> decision, justification |-> justification]
              /\ approval_type # "legal"
                 => Get(approvals', "selected_proposals", {}) = selected
              /\ approve(decision, justification, approval_type, selected, zip_ok) )
            => LET legal_flow ==
                     \/ \E step \in {"evaluate_legal_basis", "execute_erasure",
                                     "confirm_completion"} :
                           StepCount(audit_log', step) > StepCount(audit_log, step)
                     \/ erasure' # erasure
                     \/ legal' # legal
               IN /\ legal_flow => (approval_type = "legal" /\ RequestIs("erasure"))
                  /\ approval_type = "legal"
                     => /\ StepCount(audit_log', "finalize_delivery")
                             = StepCount(audit_log, "finalize_delivery")
                        /\ delivery' = delivery
                        /\ package' = package ]_vars

\* a legal approval of an erasure request that ran the erasure and delivered
\* nothing
C38_Witness ==
    /\ last = "approve"
    /\ RequestIs("erasure")
    /\ LegalDecision(approvals) = "approved"
    /\ Has(erasure, "deleted")
    /\ StepCount(audit_log, "confirm_completion") = 1
    /\ StepCount(audit_log, "finalize_delivery") = 0
    /\ ~Has(delivery, "path")

====
